---- MODULE Spec2Model ----
(***************************************************************************)
(* The method invocation engine of agent-scheduler (MethodExecutor in      *)
(* src/agent-scheduler/src/executor.py) with the shared data models of     *)
(* src/shared/models.py: parameter validation, type conversion and         *)
(* defaulting, callable resolution with its cache, the timeout-bounded     *)
(* call and the ExecutionResult handed back to the caller.                 *)
(***************************************************************************)
EXTENDS Integers, Sequences, FiniteSets, TLC

(***************************************************************************)
(* Bounds of the model.                                                    *)
(***************************************************************************)
\* the largest number of arguments a caller supplies in one request
MaxArgs == 2
\* the largest per-call timeout (seconds) a caller supplies
MaxTimeout == 1

(***************************************************************************)
(* Python values.  A value is a record tagged with its Python type; text   *)
(* is a sequence of one-character strings so that parsing and formatting   *)
(* are computed, not assumed.  A float is kept in tenths (31 is 3.1).      *)
(***************************************************************************)
NoneV == [t |-> "none"]
BoolV(b) == [t |-> "bool", b |-> b]
IntV(n) == [t |-> "int", i |-> n]
FloatV(n) == [t |-> "float", tenths |-> n]
StrV(cs) == [t |-> "str", s |-> cs]
DictV(kw) == [t |-> "dict", kw |-> kw]
ListV(xs) == [t |-> "list", xs |-> xs]

Digits == <<"0", "1", "2", "3", "4", "5", "6", "7", "8", "9">>
IsDigit(c) == \E d \in 1..10 : Digits[d] = c
DigitVal(c) == (CHOOSE d \in 1..10 : Digits[d] = c) - 1
AllDigits(cs) == Len(cs) > 0 /\ \A k \in 1..Len(cs) : IsDigit(cs[k])

RECURSIVE ParseDigits(_, _)
ParseDigits(cs, acc) ==
    IF cs = <<>> THEN acc
    ELSE ParseDigits(Tail(cs), acc * 10 + DigitVal(Head(cs)))

RECURSIVE NatToStr(_)
NatToStr(n) ==
    IF n < 10 THEN <<Digits[n + 1]>>
    ELSE NatToStr(n \div 10) \o <<Digits[(n % 10) + 1]>>

\* str(n) of an int: canonical decimal text
IntToStr(n) == IF n < 0 THEN <<"-">> \o NatToStr(-n) ELSE NatToStr(n)

Ok(v) == [ok |-> TRUE, value |-> v]
Err(e) == [ok |-> FALSE, exc |-> e]

\* int(text): an optional sign, then decimal digits; anything else raises ValueError
IntOfStr(cs) ==
    IF cs # <<>> /\ Head(cs) \in {"-", "+"}
    THEN IF AllDigits(Tail(cs))
         THEN Ok(IntV((IF Head(cs) = "-" THEN -1 ELSE 1) * ParseDigits(Tail(cs), 0)))
         ELSE Err("ValueError")
    ELSE IF AllDigits(cs) THEN Ok(IntV(ParseDigits(cs, 0))) ELSE Err("ValueError")

\* float(text): an optional sign, digits and at most one decimal digit
FloatOfStr(cs) ==
    LET body == IF cs # <<>> /\ Head(cs) \in {"-", "+"} THEN Tail(cs) ELSE cs
        sign == IF cs # <<>> /\ Head(cs) = "-" THEN -1 ELSE 1
        n    == Len(body)
    IN  IF AllDigits(body) THEN Ok(FloatV(sign * 10 * ParseDigits(body, 0)))
        ELSE IF n >= 3 /\ body[n - 1] = "." /\ IsDigit(body[n])
                /\ AllDigits(SubSeq(body, 1, n - 2))
        THEN Ok(FloatV(sign * (10 * ParseDigits(SubSeq(body, 1, n - 2), 0)
                               + DigitVal(body[n]))))
        ELSE Err("ValueError")

\* str(x) of a float kept in tenths: "3.1", "-0.5", "5.0"
FloatToStr(n) ==
    LET a == IF n < 0 THEN -n ELSE n
    IN  (IF n < 0 THEN <<"-">> ELSE <<>>)
        \o NatToStr(a \div 10) \o <<".">> \o <<Digits[(a % 10) + 1]>>

\* int(x) of a float truncates toward zero
TruncFloat(n) == IF n < 0 THEN -((-n) \div 10) ELSE n \div 10

UpperChars == <<"A", "E", "F", "L", "N", "O", "R", "S", "T", "U", "Y">>
LowerChars == <<"a", "e", "f", "l", "n", "o", "r", "s", "t", "u", "y">>
LowerChar(c) ==
    IF \E k \in 1..Len(UpperChars) : UpperChars[k] = c
    THEN LowerChars[CHOOSE k \in 1..Len(UpperChars) : UpperChars[k] = c]
    ELSE c
\* text.lower() over the letters the model's texts use
LowerText(cs) == [k \in 1..Len(cs) |-> LowerChar(cs[k])]

\* str.lower() of a type name
LowerName(name) ==
    CASE name = "Int" -> "int"
      [] name = "INT" -> "int"
      [] name = "String" -> "string"
      [] name = "Bool" -> "bool"
      [] name = "None" -> "none"
      [] name = "NoneType" -> "nonetype"
      [] name = "Any" -> "any"
      [] OTHER -> name

\* json.loads(text) on the JSON texts of the model: the empty object and array,
\* null, true, false, integer and one-decimal numbers, and quoted plain text
JsonLoads(cs) ==
    LET n == Len(cs)
        body == IF cs # <<>> /\ Head(cs) = "-" THEN Tail(cs) ELSE cs
        noLeadingZero == Len(body) = 1 \/ (Len(body) > 1 /\ body[1] # "0")
    IN  CASE cs = <<"{", "}">> -> Ok(DictV(<<>>))
          [] cs = <<"[", "]">> -> Ok(ListV(<<>>))
          [] cs = <<"n", "u", "l", "l">> -> Ok(NoneV)
          [] cs = <<"t", "r", "u", "e">> -> Ok(BoolV(TRUE))
          [] cs = <<"f", "a", "l", "s", "e">> -> Ok(BoolV(FALSE))
          [] AllDigits(body) /\ noLeadingZero -> IntOfStr(cs)
          [] /\ Len(body) >= 3 /\ body[Len(body) - 1] = "."
             /\ AllDigits(SubSeq(body, 1, Len(body) - 2))
             /\ (Len(body) = 3 \/ body[1] # "0")
             /\ IsDigit(body[Len(body)]) -> FloatOfStr(cs)
          [] /\ n >= 2 /\ cs[1] = "\"" /\ cs[n] = "\""
             /\ \A k \in 2..(n - 1) : cs[k] \notin {"\"", "\\"}
               -> Ok(StrV(SubSeq(cs, 2, n - 1)))
          [] OTHER -> Err("JSONDecodeError")

\* isinstance(value, type_checks[target_type]); bool is a subclass of int
TypeMatches(value, target) ==
    CASE target \in {"string", "str"} -> value.t = "str"
      [] target \in {"int", "integer"} -> value.t \in {"int", "bool"}
      [] target = "float" -> value.t = "float"
      [] target = "number" -> value.t \in {"int", "bool", "float"}
      [] target \in {"bool", "boolean"} -> value.t = "bool"
      [] target \in {"dict", "object"} -> value.t = "dict"
      [] target \in {"list", "array"} -> value.t = "list"
      [] OTHER -> FALSE

\* str(value)
PyStr(value) ==
    CASE value.t = "none" -> StrV(<<"N", "o", "n", "e">>)
      [] value.t = "bool" -> StrV(IF value.b THEN <<"T", "r", "u", "e">>
                                             ELSE <<"F", "a", "l", "s", "e">>)
      [] value.t = "int" -> StrV(IntToStr(value.i))
      [] value.t = "float" -> StrV(FloatToStr(value.tenths))
      [] value.t = "dict" /\ DOMAIN value.kw = {} -> StrV(<<"{", "}">>)
      [] value.t = "list" /\ DOMAIN value.xs = {} -> StrV(<<"[", "]">>)

\* bool(value): Python truthiness
PyBool(value) ==
    CASE value.t = "none" -> FALSE
      [] value.t = "bool" -> value.b
      [] value.t = "int" -> value.i # 0
      [] value.t = "float" -> value.tenths # 0
      [] value.t = "str" -> value.s # <<>>
      [] value.t = "dict" -> DOMAIN value.kw # {}
      [] value.t = "list" -> DOMAIN value.xs # {}

\* int(value) of a value that is not already an int
PyInt(value) ==
    CASE value.t = "str" -> IntOfStr(value.s)
      [] value.t = "float" -> Ok(IntV(TruncFloat(value.tenths)))
      [] value.t = "bool" -> Ok(IntV(IF value.b THEN 1 ELSE 0))
      [] value.t = "int" -> Ok(value)
      [] OTHER -> Err("TypeError")

\* float(value) of a value that is not already a float
PyFloat(value) ==
    CASE value.t = "str" -> FloatOfStr(value.s)
      [] value.t = "int" -> Ok(FloatV(10 * value.i))
      [] value.t = "bool" -> Ok(FloatV(IF value.b THEN 10 ELSE 0))
      [] value.t = "float" -> Ok(value)
      [] OTHER -> Err("TypeError")

\* dict(value) of a value that is neither a dict nor text
PyDict(value) ==
    IF value.t = "list" /\ DOMAIN value.xs = {} THEN Ok(DictV(<<>>))
    ELSE Err("TypeError")

\* list(value) of a value that is neither a list nor text
PyList(value) ==
    IF value.t = "dict" /\ DOMAIN value.kw = {} THEN Ok(ListV(<<>>))
    ELSE Err("TypeError")

\* a conversion to bool that knows no words, only truthiness
ConvertBool_truthy(value) == BoolV(PyBool(value))

\* the string-to-bool table of _convert_type, then bool(value)
ConvertBool(value) ==
    IF value.t = "str"
       /\ LowerText(value.s) \in {<<"t", "r", "u", "e">>, <<"1">>, <<"y", "e", "s">>}
    THEN BoolV(TRUE)
    ELSE IF value.t = "str"
            /\ LowerText(value.s) \in {<<"f", "a", "l", "s", "e">>, <<"0">>, <<"n", "o">>}
    THEN BoolV(FALSE)
    ELSE BoolV(PyBool(value))

\* the ValueError _convert_type raises: it carries the value and the target type
ConvertError(value, target, cause) ==
    [ok |-> FALSE, exc |-> "ValueError", value |-> value,
     target |-> target, cause |-> cause]

\* MethodExecutor._convert_type: Ok(converted) or the ValueError raised
ConvertType(value, target_type) ==
    LET target == LowerName(target_type)
        wrap(r) == IF r.ok THEN r ELSE ConvertError(value, target, r.exc)
    IN  IF TypeMatches(value, target) THEN Ok(value)
        ELSE CASE target \in {"string", "str"} -> Ok(PyStr(value))
               [] target \in {"int", "integer"} -> wrap(PyInt(value))
               [] target \in {"float", "number"} -> wrap(PyFloat(value))
               [] target \in {"bool", "boolean"} -> Ok(ConvertBool(value))
               [] target \in {"dict", "object"} ->
                    IF value.t = "str" THEN wrap(JsonLoads(value.s))
                    ELSE wrap(PyDict(value))
               [] target \in {"list", "array"} ->
                    IF value.t = "str" THEN wrap(JsonLoads(value.s))
                    ELSE wrap(PyList(value))
               [] OTHER -> Ok(value)

(***************************************************************************)
(* Declarations (shared/models.py).                                        *)
(***************************************************************************)
\* MethodParameter; default NoneV is both "no default" and a null default
MethodParameter(name, type, required, default) ==
    [name |-> name, type |-> type, required |-> required, default |-> default]

\* MethodParameter.from_dict: required defaults to True, default to None
FromDict(data) ==
    MethodParameter(data.name, data.type,
                    IF "required" \in DOMAIN data THEN data.required ELSE TRUE,
                    IF "default" \in DOMAIN data THEN data.default ELSE NoneV)

\* parameters_json, given by what json.loads makes of the stored text: the
\* list of parameter dicts, or the exception for text that does not parse
JsonText(data) == Ok(data)
MalformedJson == Err("JSONDecodeError")

\* MethodMetadata
MethodMetadata(name, parameters_json, module_path, function_name) ==
    [name |-> name, parameters_json |-> parameters_json,
     module_path |-> module_path, function_name |-> function_name]

\* MethodMetadata.parameters: the list of MethodParameter, or the exception
\* json.loads raises
Parameters(method) ==
    IF ~method.parameters_json.ok THEN Err(method.parameters_json.exc)
    ELSE Ok([k \in 1..Len(method.parameters_json.value) |->
                FromDict(method.parameters_json.value[k])])

\* ExecutionResult(success, result, error); result and error default to None
ExecutionResult(success, result, error) ==
    [t |-> "ExecutionResult", success |-> success, result |-> result,
     error |-> error]

(***************************************************************************)
(* Error messages of the executor: the format text and what fills it.      *)
(***************************************************************************)
MsgNotFound(name) == [text |-> "Method '%s' not found", arg |-> name]
MsgMissing(p) == [text |-> "Required parameter '%s' is missing", arg |-> p]
MsgUnknown(p) == [text |-> "Unknown parameter '%s'", arg |-> p]
MsgValidation(inner) == [text |-> "Parameter validation failed: %s", inner |-> inner]
MsgParameter(p, e) == [text |-> "Parameter '%s': %s", arg |-> p, inner |-> e]
MsgPreparation(inner) == [text |-> "Parameter preparation failed: %s", inner |-> inner]
MsgImport(module_path) ==
    [text |-> "Failed to import module '%s': %s", arg |-> module_path]
MsgLoad(name, inner) ==
    [text |-> "Failed to load method '%s': %s", arg |-> name, inner |-> inner]
MsgNoFunction(function_name, module_path) ==
    [text |-> "Function '%s' not found in module '%s'",
     arg |-> function_name, module |-> module_path]
MsgNotCallable(function_name, module_path) ==
    [text |-> "'%s' in module '%s' is not callable",
     arg |-> function_name, module |-> module_path]
MsgExceeded(seconds) ==
    [text |-> "Method execution exceeded timeout of %s seconds", arg |-> seconds]
MsgTimeout(inner) == [text |-> "Method execution timeout: %s", inner |-> inner]
MsgFailed(type, inner) ==
    [text |-> "Method execution failed: %s: %s", arg |-> type, inner |-> inner]

(***************************************************************************)
(* MethodExecutor.validate_params                                          *)
(***************************************************************************)
\* the keys of the supplied arguments, a list of [name, value] in dict order
Keys(params) == {params[k].name : k \in 1..Len(params)}
Supplied(params, n) == params[CHOOSE k \in 1..Len(params) : params[k].name = n].value

Min(S) == CHOOSE x \in S : \A y \in S : x <= y
Max(S) == CHOOSE x \in S : \A y \in S : x >= y

\* the places of the declared parameters the required-parameter loop rejects
MissingAt(ps, params) ==
    {k \in 1..Len(ps) : /\ ps[k].required
                        /\ ps[k].name \notin Keys(params)
                        /\ ps[k].default = NoneV}

\* the places of the supplied arguments the unknown-parameter loop rejects
UnknownAt(ps, params) ==
    {k \in 1..Len(params) : params[k].name \notin {ps[j].name : j \in 1..Len(ps)}}

\* a required-parameter loop that keeps going and reports the last one
MissingReported_last(ps, params) == ps[Max(MissingAt(ps, params))].name

\* the parameter the required-parameter loop returns at: the first it meets
MissingReported(ps, params) == ps[Min(MissingAt(ps, params))].name

\* an unknown-parameter loop that keeps going and reports the last one
UnknownReported_last(ps, params) == params[Max(UnknownAt(ps, params))].name

\* the argument the unknown-parameter loop returns at: the first it meets
UnknownReported(ps, params) == params[Min(UnknownAt(ps, params))].name

\* validate_params: (is_valid, error_message), or the exception that
\* method.parameters raises
ValidateParams(ms, name, params) ==
    IF name \notin DOMAIN ms
    THEN [raised |-> FALSE, valid |-> FALSE, error |-> MsgNotFound(name)]
    ELSE LET parsed == Parameters(ms[name])
         IN  IF ~parsed.ok THEN [raised |-> TRUE, exc |-> parsed.exc]
             ELSE IF MissingAt(parsed.value, params) # {}
             THEN [raised |-> FALSE, valid |-> FALSE,
                   error |-> MsgMissing(MissingReported(parsed.value, params))]
             ELSE IF UnknownAt(parsed.value, params) # {}
             THEN [raised |-> FALSE, valid |-> FALSE,
                   error |-> MsgUnknown(UnknownReported(parsed.value, params))]
             ELSE [raised |-> FALSE, valid |-> TRUE, error |-> NoneV]

(***************************************************************************)
(* MethodExecutor._prepare_params                                          *)
(***************************************************************************)
\* a default test by truthiness (if param.default) instead of "is not None"
UsesDefault_truthy(p) == ~p.required /\ PyBool(p.default)

\* whether _prepare_params fills in the declared default of a parameter
\* that was not supplied
UsesDefault(p) == ~p.required /\ p.default # NoneV

\* the value _prepare_params stores for a parameter that was not supplied
DefaultValue(p) == p.default

\* the places of the declared parameters whose supplied value fails to convert
FailsAt(ps, params) ==
    {k \in 1..Len(ps) : /\ ps[k].name \in Keys(params)
                        /\ ~ConvertType(Supplied(params, ps[k].name), ps[k].type).ok}

\* a _prepare_params that swallows a failed conversion and passes the
\* supplied value on as it came
PrepareParams_passRaw(method, params) ==
    LET ps == Parameters(method).value
        names == {ps[k].name : k \in 1..Len(ps)}
        decl(n) == ps[CHOOSE k \in 1..Len(ps) : ps[k].name = n]
        present == {n \in names : n \in Keys(params) \/ UsesDefault(decl(n))}
    IN  Ok([n \in present |->
              IF n \notin Keys(params) THEN DefaultValue(decl(n))
              ELSE IF ConvertType(Supplied(params, n), decl(n).type).ok
              THEN ConvertType(Supplied(params, n), decl(n).type).value
              ELSE Supplied(params, n)])

\* _prepare_params: Ok(the prepared keyword arguments) or the ValueError
\* raised at the first declared parameter whose conversion fails
PrepareParams(method, params) ==
    LET parsed == Parameters(method)
    IN  IF ~parsed.ok
        THEN [ok |-> FALSE, exc |-> parsed.exc,
              error |-> [text |-> "%s", arg |-> parsed.exc]]
        ELSE LET ps == parsed.value
                 names == {ps[k].name : k \in 1..Len(ps)}
                 decl(n) == ps[CHOOSE k \in 1..Len(ps) : ps[k].name = n]
                 present == {n \in names : \/ n \in Keys(params)
                                           \/ UsesDefault(decl(n))}
             IN  IF FailsAt(ps, params) # {}
                 THEN LET bad == ps[Min(FailsAt(ps, params))]
                      IN  [ok |-> FALSE, exc |-> "ValueError",
                           error |-> MsgParameter(bad.name,
                               ConvertType(Supplied(params, bad.name), bad.type))]
                 ELSE Ok([n \in present |->
                            IF n \in Keys(params)
                            THEN ConvertType(Supplied(params, n), decl(n).type).value
                            ELSE DefaultValue(decl(n))])

(***************************************************************************)
(* The host runtime the locators point into: one importable module with    *)
(* callables of each behaviour and one attribute that is not callable.     *)
(***************************************************************************)
\* importlib.import_module(module_path) succeeds
ModuleExists(module_path) == module_path = "tools"
\* hasattr(module, function_name)
HasAttr(module_path, function_name) ==
    /\ module_path = "tools"
    /\ function_name \in {"echo", "noop", "boom", "expire", "quit", "sleep",
                         "retry", "native", "spin", "wedge", "VERSION"}
\* callable(getattr(module, function_name))
IsCallable(module_path, function_name) == function_name # "VERSION"

\* the function object a locator resolves to
Handle(module_path, function_name) ==
    [module |-> module_path, function |-> function_name]
NoHandle == Handle("", "")

\* the seconds a slow callable of the host works before it returns
SlowSeconds == 5

\* a callable that ends at once
Instant(o) == o @@ [seconds |-> 0, interruptible |-> TRUE, swallows |-> FALSE]

\* func(**prepared_params): what the callable does with its keyword
\* arguments: how it ends (kind), after how many seconds, whether a signal
\* handler can raise inside it while it works (interruptible: not while it
\* is in native code), and whether it catches an Exception raised inside it
\* and carries on (swallows).
\*   echo returns its arguments, noop returns None, boom raises ValueError,
\*   expire raises the executor's own TimeoutError class, quit raises
\*   SystemExit (not an Exception); sleep, retry and native return None after
\*   SlowSeconds; spin and wedge never return.
CallOutcome(func, kwargs) ==
    CASE func.function = "echo" -> Instant([kind |-> "return", value |-> DictV(kwargs)])
      [] func.function = "noop" -> Instant([kind |-> "return", value |-> NoneV])
      [] func.function = "boom" ->
            Instant([kind |-> "raise", type |-> "ValueError",
                     timeout_class |-> FALSE, is_exception |-> TRUE])
      [] func.function = "expire" ->
            Instant([kind |-> "raise", type |-> "TimeoutError",
                     timeout_class |-> TRUE, is_exception |-> TRUE])
      [] func.function = "quit" ->
            Instant([kind |-> "raise", type |-> "SystemExit",
                     timeout_class |-> FALSE, is_exception |-> FALSE])
      [] func.function = "sleep" ->
            [kind |-> "return", value |-> NoneV, seconds |-> SlowSeconds,
             interruptible |-> TRUE, swallows |-> FALSE]
      [] func.function = "retry" ->
            [kind |-> "return", value |-> NoneV, seconds |-> SlowSeconds,
             interruptible |-> TRUE, swallows |-> TRUE]
      [] func.function = "native" ->
            [kind |-> "return", value |-> NoneV, seconds |-> SlowSeconds,
             interruptible |-> FALSE, swallows |-> FALSE]
      [] func.function = "spin" ->
            [kind |-> "never", seconds |-> 0, interruptible |-> TRUE,
             swallows |-> FALSE]
      [] OTHER ->
            [kind |-> "never", seconds |-> 0, interruptible |-> FALSE,
             swallows |-> FALSE]

(***************************************************************************)
(* MethodExecutor._load_method                                             *)
(***************************************************************************)
\* a cache check that never finds an entry
Cached_never(cache, name) == FALSE

\* method_name in self._method_cache
Cached(cache, name) == name \in DOMAIN cache

\* a store that starts a new cache holding the one entry
Store_alone(cache, name, handle) == [n \in {name} |-> handle]

\* self._method_cache[method_name] = func
Store(cache, name, handle) ==
    [n \in DOMAIN cache \cup {name} |-> IF n = name THEN handle ELSE cache[n]]

\* a resolver that remembers a failure: the name is cached with no function
AfterFailure_memoized(cache, name) == Store(cache, name, NoHandle)

\* _load_method's except clauses raise and store nothing
AfterFailure(cache, name) == cache

\* _load_method: the cached handle, or the result of importing and looking
\* up the locator: Ok(handle) with the cache to store, or the
\* MethodExecutorError raised. imported tells whether import_module ran.
LoadMethod(cache, ms, name) ==
    IF Cached(cache, name)
    THEN [ok |-> TRUE, value |-> cache[name], cache |-> cache, imported |-> FALSE]
    ELSE LET method == ms[name]
             mp == method.module_path
             fn == method.function_name
         IN  IF ~ModuleExists(mp)
             THEN [ok |-> FALSE, error |-> MsgImport(mp),
                   cache |-> AfterFailure(cache, name), imported |-> TRUE]
             ELSE IF ~HasAttr(mp, fn)
             THEN [ok |-> FALSE, error |-> MsgLoad(name, MsgNoFunction(fn, mp)),
                   cache |-> AfterFailure(cache, name), imported |-> TRUE]
             ELSE IF ~IsCallable(mp, fn)
             THEN [ok |-> FALSE, error |-> MsgLoad(name, MsgNotCallable(fn, mp)),
                   cache |-> AfterFailure(cache, name), imported |-> TRUE]
             ELSE [ok |-> TRUE, value |-> Handle(mp, fn),
                   cache |-> Store(cache, name, Handle(mp, fn)),
                   imported |-> TRUE]

(***************************************************************************)
(* The executor and one caller.  The caller's requests are drawn from the  *)
(* sets below; the registry holds one declaration under the name "m" and   *)
(* a fixed one under the name "k".                                         *)
(***************************************************************************)
\* MethodExecutor.__init__: default_timeout
DefaultTimeout == 30

\* a stored parameter dict (MethodParameter.to_dict); its description, which
\* the executor never reads, is left out
ParamDict(name, type, required, default) ==
    [name |-> name, type |-> type, required |-> required, default |-> default]

\* (required, default) of the declared parameter a, of type int
AChoices ==
    {<<TRUE, NoneV>>, <<TRUE, IntV(5)>>, <<FALSE, NoneV>>, <<FALSE, IntV(5)>>,
     <<FALSE, StrV(<<"5">>)>>, <<FALSE, IntV(0)>>}
\* (required, default) of the declared parameter b, of type string
BChoices ==
    {<<TRUE, NoneV>>, <<TRUE, StrV(<<"x">>)>>, <<FALSE, NoneV>>,
     <<FALSE, StrV(<<"x">>)>>, <<FALSE, IntV(5)>>, <<FALSE, StrV(<<>>)>>}
\* the dicts of a stored parameter list; to_dict writes every key, a list
\* stored by hand may leave out "default" or "required"
ADicts ==
    {ParamDict("a", "int", c[1], c[2]) : c \in AChoices}
    \cup {[name |-> "a", type |-> "int", required |-> FALSE],
          [name |-> "a", type |-> "int"]}
BDicts ==
    {ParamDict("b", "string", c[1], c[2]) : c \in BChoices}
    \cup {[name |-> "b", type |-> "string", required |-> FALSE]}
ParamLists ==
    {<<>>} \cup {<<x>> : x \in ADicts \cup BDicts}
           \cup {<<x, y>> : x \in ADicts, y \in BDicts}

Declarations ==
    {MethodMetadata("m", JsonText(ps), "tools", "echo") : ps \in ParamLists}
    \cup {MethodMetadata("m", JsonText(<<>>), "tools", fn) :
            fn \in {"noop", "boom", "expire", "quit", "sleep", "retry", "native",
                    "spin", "wedge", "VERSION", "absent"}}
    \cup {MethodMetadata("m", JsonText(<<>>), "ghost", "echo"),
          MethodMetadata("m", MalformedJson, "tools", "echo")}

\* the declarations the owner of the registry later stores under "m" in
\* place of the first one: another callable, and a symbol that is absent
Replacements ==
    {MethodMetadata("m", JsonText(<<>>), "tools", fn) : fn \in {"noop", "absent"}}

\* a second registered method, whose declaration stays as it is
OtherMethod == MethodMetadata("k", JsonText(<<>>), "tools", "noop")

RequestNames == {"m", "k", "nx"}
ArgNames == {"a", "b", "c"}
ArgValues == {IntV(5), StrV(<<"5">>), StrV(<<"x">>)}
ArgPairs == [name : ArgNames, value : ArgValues]
\* argument dicts: keys are distinct, the order is the dict's insertion order
ArgDicts ==
    {ps \in UNION {[1..n -> ArgPairs] : n \in 0..MaxArgs} :
        \A i, j \in 1..Len(ps) : i # j => ps[i].name # ps[j].name}
Timeouts == {NoneV} \cup {IntV(n) : n \in 0..MaxTimeout}

VARIABLES
    methods,          \* self.methods: name -> MethodMetadata
    method_cache,     \* self._method_cache: name -> function object
    pc,               \* where the invocation in progress stands
    method_name,      \* execute's arguments
    params,
    timeout,
    prepared_params,  \* execute's locals
    func,
    result,           \* the ExecutionResult returned, NoneV before
    raised,           \* the exception that left execute, NoneV if none
    alarm,            \* seconds of the pending SIGALRM, 0 when none is armed
    sigalrm,          \* what became of the SIGALRM of this invocation
    platform,         \* sys.platform of the process
    calls,            \* times the target callable was invoked by this invocation
    loads,            \* times import_module ran for this invocation
    cache0,           \* self._method_cache when the invocation started
    decl_read,        \* the declarations this invocation has read for its method
    workers,          \* the invocations of concurrent workers (used further down)
    method_config,    \* the MethodConfig handed to validate_method
    validation_result, \* the ValidationResult it returned, NoneV before
    method_configs,   \* the methods loaded from the methods configuration
    validation_results, \* validate_methods' list of results
    registered_methods, \* the database table: name -> row
    registration,     \* the registration run: where it stands, how it exits
    conversion,       \* a call of _convert_type: its arguments and what it gave
    signals,          \* SIGALRM of the process: handler, alarm, open contexts
    database,         \* the registered_methods table behind its connection pool
    tasks,            \* the API's TaskStore and the requests at work on it
    agent             \* a run of SimpleAgentClient.process_task

vars == <<methods, method_cache, pc, method_name, params, timeout,
          prepared_params, func, result, raised, alarm, sigalrm, platform,
          calls, loads, cache0, decl_read, workers, method_config,
          validation_result, method_configs, validation_results,
          registered_methods, registration, conversion, signals, database,
          tasks, agent>>

\* the collaborators modelled at the end: signal handling of nested
\* invocations, the database client, the task API and the agent client
services == <<signals, database, tasks, agent>>

\* the state of the models further down, which the single caller leaves alone
aux == <<workers, method_config, validation_result, method_configs,
         validation_results, registered_methods, registration, conversion,
         services>>

\* the validator and the registration run, which the executor has no part in
registrar == <<method_config, validation_result, method_configs,
               validation_results, registered_methods, registration,
               conversion, services>>

\* the threads that invoke execute concurrently; the first is the main thread
Workers == {1, 2}
MainThread == 1
\* a worker with no invocation in hand
IdleWorker ==
    [pc |-> "Idle", method_name |-> "", params |-> <<>>, timeout |-> NoneV,
     prepared_params |-> <<>>, method |-> NoneV, func |-> NoHandle,
     result |-> NoneV, raised |-> NoneV]
WorkersIdle == workers = [w \in Workers |-> IdleWorker]
\* validate_method is not in use
ValidatorIdle == method_config = NoneV /\ validation_result = NoneV
\* no registration is run
RegistrationIdle ==
    /\ method_configs = <<>>
    /\ validation_results = <<>>
    /\ registered_methods = <<>>
    /\ registration = [pc |-> "Idle"]
\* _convert_type is not called on its own
ConversionIdle == conversion = [pc |-> "Idle"]
\* no nested invocation, database operation, API request or agent run
SignalsIdle == signals = [pc |-> "Idle"]
DatabaseIdle == database = [pc |-> "Idle"]
TasksIdle == tasks = [pc |-> "Idle"]
AgentIdle == agent = [pc |-> "Idle"]
ServicesIdle == SignalsIdle /\ DatabaseIdle /\ TasksIdle /\ AgentIdle
AuxIdle ==
    /\ WorkersIdle
    /\ ValidatorIdle
    /\ RegistrationIdle
    /\ ConversionIdle
    /\ ServicesIdle

\* sys.platform: a platform with SIGALRM, and win32
Platforms == {"linux", "win32"}

Terminal == {"Succeeded", "Failed", "Raised"}

Init ==
    /\ \E d \in Declarations, pf \in Platforms :
          /\ pf = "win32" => d.parameters_json = JsonText(<<>>)
          /\ methods = [n \in {"m", "k"} |-> IF n = "m" THEN d ELSE OtherMethod]
          /\ platform = pf
    /\ method_cache = <<>>
    /\ pc = "Idle"
    /\ method_name = ""
    /\ params = <<>>
    /\ timeout = NoneV
    /\ prepared_params = <<>>
    /\ func = NoHandle
    /\ result = NoneV
    /\ raised = NoneV
    /\ alarm = 0
    /\ sigalrm = "idle"
    /\ calls = 0
    /\ loads = 0
    /\ cache0 = <<>>
    /\ decl_read = {}
    /\ AuxIdle

\* a caller invokes execute(method_name, params, timeout)
Start ==
    /\ pc = "Idle"
    /\ \E n \in RequestNames, ps \in ArgDicts, t \in Timeouts :
          /\ method_name' = n
          /\ params' = ps
          /\ timeout' = t
    /\ pc' = "Validating"
    /\ cache0' = method_cache
    /\ decl_read' = {}
    /\ UNCHANGED <<methods, method_cache, prepared_params, func, result,
                   raised, alarm, sigalrm, platform, calls, loads, aux>>

\* a failure return that forgets to pass the error message on
Fail_noError(error) ==
    /\ pc' = "Failed"
    /\ result' = ExecutionResult(FALSE, NoneV, NoneV)

\* return ExecutionResult(success=False, error=...)
Fail(error) ==
    /\ pc' = "Failed"
    /\ result' = ExecutionResult(FALSE, NoneV, error)

\* execute without its own method-exists check: validate_params reports it
MethodExists_unchecked(ms, name) == TRUE

\* self.method_name in self.methods (execute's first check)
MethodExists(ms, name) == name \in DOMAIN ms

\* execute: the method-exists check and validate_params
Validate ==
    /\ pc = "Validating"
    /\ IF ~MethodExists(methods, method_name)
       THEN Fail(MsgNotFound(method_name)) /\ UNCHANGED raised
       ELSE LET v == ValidateParams(methods, method_name, params)
            IN  IF v.raised
                THEN pc' = "Raised" /\ raised' = [exc |-> v.exc] /\ UNCHANGED result
                ELSE IF ~v.valid
                THEN Fail(MsgValidation(v.error)) /\ UNCHANGED raised
                ELSE pc' = "Converting" /\ UNCHANGED <<result, raised>>
    /\ decl_read' = IF method_name \in DOMAIN methods
                    THEN decl_read \cup {methods[method_name]}
                    ELSE decl_read
    /\ UNCHANGED <<methods, method_cache, method_name, params, timeout,
                   prepared_params, func, alarm, sigalrm, platform, calls,
                   loads, cache0, aux>>

\* self.methods[method_name] of a name that is no longer registered: the
\* KeyError is neither a ValueError nor a MethodExecutorError and leaves
\* execute
KeyError ==
    /\ pc' = "Raised"
    /\ raised' = [exc |-> "KeyError"]

\* execute: _prepare_params under except ValueError
Convert ==
    /\ pc = "Converting"
    /\ IF method_name \notin DOMAIN methods
       THEN KeyError /\ UNCHANGED <<prepared_params, result, decl_read>>
       ELSE LET r == PrepareParams(methods[method_name], params)
            IN  /\ decl_read' = decl_read \cup {methods[method_name]}
                /\ UNCHANGED raised
                /\ IF r.ok
                   THEN /\ prepared_params' = r.value
                        /\ pc' = "Resolving"
                        /\ UNCHANGED result
                   ELSE Fail(MsgPreparation(r.error)) /\ UNCHANGED prepared_params
    /\ UNCHANGED <<methods, method_cache, method_name, params, timeout, func,
                   alarm, sigalrm, platform, calls, loads, cache0, aux>>

\* execute: _load_method under except MethodExecutorError
Resolve ==
    /\ pc = "Resolving"
    /\ IF ~Cached(method_cache, method_name) /\ method_name \notin DOMAIN methods
       THEN KeyError /\ UNCHANGED <<method_cache, loads, func, result, decl_read>>
       ELSE LET r == LoadMethod(method_cache, methods, method_name)
            IN  /\ method_cache' = r.cache
                /\ loads' = loads + (IF r.imported THEN 1 ELSE 0)
                /\ decl_read' = IF r.imported
                                THEN decl_read \cup {methods[method_name]}
                                ELSE decl_read
                /\ UNCHANGED raised
                /\ IF r.ok
                   THEN func' = r.value /\ pc' = "Executing" /\ UNCHANGED result
                   ELSE Fail(r.error) /\ UNCHANGED func
    /\ UNCHANGED <<methods, method_name, params, timeout, prepared_params,
                   alarm, sigalrm, platform, calls, cache0, aux>>

\* timeout if timeout is not None else self.default_timeout
TimeoutSeconds(t) == IF t # NoneV THEN t.i ELSE DefaultTimeout

\* execute: entering timeout_context and calling func(**prepared_params).
\* On win32 the callable is called with no timeout_context.  Elsewhere
\* signal.signal raises ValueError off the main thread, which the
\* except Exception clause reports; on the main thread signal.alarm(seconds)
\* arms the alarm (signal.alarm(0) arms none) and the callable starts.
ExecuteCall ==
    /\ pc = "Executing"
    /\ calls = 0
    /\ IF platform = "win32"
       THEN /\ calls' = calls + 1
            /\ UNCHANGED <<pc, result, alarm>>
       ELSE \E main_thread \in BOOLEAN :
               IF main_thread
               THEN /\ alarm' = TimeoutSeconds(timeout)
                    /\ calls' = calls + 1
                    /\ UNCHANGED <<pc, result>>
               ELSE /\ Fail(MsgFailed("ValueError",
                            [text |-> "signal only works in main thread"]))
                    /\ UNCHANGED <<alarm, calls>>
    /\ UNCHANGED <<methods, method_cache, method_name, params, timeout,
                   prepared_params, func, raised, sigalrm, platform, loads,
                   cache0, decl_read, aux>>

\* the armed alarm goes off while the callable is still at work:
\* timeout_handler raises TimeoutError inside the callable, which lets it
\* pass up to execute's except TimeoutError clause, or catches it and
\* carries on; while the callable is in native code the handler cannot run
\* and the signal stays pending
AlarmFires ==
    /\ pc = "Executing"
    /\ calls = 1
    /\ alarm > 0
    /\ LET o == CallOutcome(func, prepared_params)
       IN  /\ o.kind = "never" \/ o.seconds >= alarm
           /\ IF ~o.interruptible
              THEN sigalrm' = "pending" /\ UNCHANGED <<pc, result>>
              ELSE IF o.swallows
              THEN sigalrm' = "swallowed" /\ UNCHANGED <<pc, result>>
              ELSE /\ sigalrm' = "raised"
                   /\ Fail(MsgTimeout(MsgExceeded(alarm)))
    /\ alarm' = 0
    /\ UNCHANGED <<methods, method_cache, method_name, params, timeout,
                   prepared_params, func, raised, platform, calls, loads,
                   cache0, decl_read, aux>>

\* execute: the callable returns or raises before an armed alarm goes off
\* (or with none armed); a pending signal is handled as the callable
\* returns, so timeout_handler raises then; an exception that is not an
\* Exception passes both except clauses; timeout_context's finally clause
\* cancels the alarm
ExecuteFinish ==
    /\ pc = "Executing"
    /\ calls = 1
    /\ LET o == CallOutcome(func, prepared_params)
       IN  /\ o.kind # "never"
           /\ alarm = 0 \/ o.seconds <= alarm
           /\ IF sigalrm = "pending"
              THEN Fail(MsgTimeout(MsgExceeded(TimeoutSeconds(timeout))))
                   /\ UNCHANGED raised
              ELSE CASE o.kind = "return" ->
                          /\ pc' = "Succeeded"
                          /\ result' = ExecutionResult(TRUE, o.value, NoneV)
                          /\ UNCHANGED raised
                     [] o.kind = "raise" /\ ~o.is_exception ->
                          /\ pc' = "Raised"
                          /\ raised' = [exc |-> o.type]
                          /\ UNCHANGED result
                     [] o.kind = "raise" /\ o.is_exception ->
                          /\ UNCHANGED raised
                          /\ IF o.timeout_class
                             THEN Fail(MsgTimeout([text |-> "raised by the callable"]))
                             ELSE Fail(MsgFailed(o.type,
                                           [text |-> "raised by the callable"]))
    /\ alarm' = 0
    /\ UNCHANGED <<methods, method_cache, method_name, params, timeout,
                   prepared_params, func, sigalrm, platform, calls, loads,
                   cache0, decl_read, aux>>

\* the invocation is cancelled from outside, the only way the host has:
\* SIGINT, which raises KeyboardInterrupt in execute before the call or
\* inside a callable at work in Python code; it is no Exception, so no
\* except clause of execute catches it
Interrupt ==
    /\ pc = "Executing"
    /\ \/ calls = 0
       \/ /\ calls = 1
          /\ CallOutcome(func, prepared_params).interruptible
          /\ CallOutcome(func, prepared_params).seconds # 0
             \/ CallOutcome(func, prepared_params).kind = "never"
    /\ pc' = "Raised"
    /\ raised' = [exc |-> "KeyboardInterrupt"]
    /\ alarm' = 0
    /\ UNCHANGED <<methods, method_cache, method_name, params, timeout,
                   prepared_params, func, result, sigalrm, platform, calls,
                   loads, cache0, decl_read, aux>>

\* the caller has the outcome; the executor is free for the next request
Return ==
    /\ pc \in Terminal
    /\ pc' = "Idle"
    /\ method_name' = ""
    /\ params' = <<>>
    /\ timeout' = NoneV
    /\ prepared_params' = <<>>
    /\ func' = NoHandle
    /\ result' = NoneV
    /\ raised' = NoneV
    /\ calls' = 0
    /\ loads' = 0
    /\ cache0' = method_cache
    /\ sigalrm' = "idle"
    /\ decl_read' = {}
    /\ UNCHANGED <<methods, method_cache, alarm, platform, aux>>

\* the owner of the methods dict stores another declaration under a
\* registered name (re-registration); the executor holds the same dict
\* and has no part in the update
Reregister ==
    /\ pc = "Idle"
    /\ \E d \in Replacements :
          /\ d # methods[d.name]
          /\ methods' = [methods EXCEPT ![d.name] = d]
    /\ UNCHANGED <<method_cache, pc, method_name, params, timeout,
                   prepared_params, func, result, raised, alarm, sigalrm,
                   platform, calls, loads, cache0, decl_read, aux>>

Next ==
    \/ Start
    \/ Validate
    \/ Convert
    \/ Resolve
    \/ ExecuteCall
    \/ AlarmFires
    \/ ExecuteFinish
    \/ Interrupt
    \/ Return
    \/ Reregister

Spec == Init /\ [][Next]_vars

(***************************************************************************)
(* What the properties below speak about.                                  *)
(***************************************************************************)
\* the kind of failure an error message tells its reader: its fixed text
ErrorKind(error) ==
    CASE error.text = "Method '%s' not found" -> "MethodNotFound"
      [] error.text = "Parameter validation failed: %s" ->
            (CASE error.inner.text = "Required parameter '%s' is missing"
                    -> "MissingRequiredParameter"
               [] error.inner.text = "Unknown parameter '%s'" -> "UnknownParameter"
               [] OTHER -> "MethodNotFound")
      [] error.text = "Parameter preparation failed: %s" -> "ParameterConversionError"
      [] error.text = "Failed to import module '%s': %s" -> "MethodLoadError"
      [] error.text = "Failed to load method '%s': %s" -> "MethodLoadError"
      [] error.text = "Method execution timeout: %s" -> "TimeoutError"
      [] error.text = "Method execution failed: %s: %s" -> "ExecutionError"
      [] OTHER -> "Unclassified"

\* an invocation of a registered method whose stored declaration parses
InProgress == pc # "Idle"
Registered == InProgress /\ method_name \in DOMAIN methods
WellFormed == Registered /\ methods[method_name].parameters_json.ok
\* the declared parameters of the method being invoked
Declared == Parameters(methods[method_name]).value
DeclaredNames == {Declared[k].name : k \in 1..Len(Declared)}
\* the required parameters the request leaves out
AbsentRequired ==
    {Declared[k].name : k \in {j \in 1..Len(Declared) :
        Declared[j].required /\ Declared[j].name \notin Keys(params)}}
\* the supplied names the declaration does not have
UnknownNames == Keys(params) \ DeclaredNames
\* execute has returned a result
Returned == pc \in {"Succeeded", "Failed"}
\* the keyword arguments of the call have been prepared
Prepared == pc \in {"Resolving", "Executing", "Succeeded"}
\* the step of execute after validation has been entered
PastValidation == pc \in {"Converting", "Resolving", "Executing", "Succeeded"}

(***************************************************************************)
(* C1.  For every registered method and every required parameter that the  *)
(* supplied arguments leave out, execute ends in failure with a            *)
(* missing-required-parameter error that names an absent required          *)
(* parameter (the parameter itself when it is the only one absent), and    *)
(* neither callable resolution nor the target callable runs.               *)
(***************************************************************************)
C1_MissingRequiredFails ==
    (WellFormed /\ AbsentRequired # {}) =>
        /\ ~PastValidation
        /\ calls = 0
        /\ loads = 0
        /\ pc # "Validating" =>
              /\ pc = "Failed"
              /\ ErrorKind(result.error) = "MissingRequiredParameter"
              /\ result.error.inner.arg \in AbsentRequired

(***************************************************************************)
(* C2 as stated.  If the supplied arguments contain a name that is not     *)
(* among the method's declared parameters, execute ends in failure with an *)
(* unknown-parameter error naming such a name, and the target callable is  *)
(* never invoked.                                                          *)
(***************************************************************************)
C2_UnknownAlwaysReported ==
    (WellFormed /\ UnknownNames # {}) =>
        /\ calls = 0
        /\ pc # "Validating" =>
              /\ pc = "Failed"
              /\ ErrorKind(result.error) = "UnknownParameter"
              /\ result.error.inner.arg \in UnknownNames

\* the required parameters left out whose declared default is null
AbsentRequiredNoDefault ==
    {Declared[k].name : k \in {j \in 1..Len(Declared) :
        /\ Declared[j].required
        /\ Declared[j].name \notin Keys(params)
        /\ Declared[j].default = NoneV}}

\* the first supplied name, in the order of the argument dict, that the
\* declaration does not have
IsFirstUnknown(n) ==
    \E k \in 1..Len(params) :
        /\ params[k].name = n
        /\ n \notin DeclaredNames
        /\ \A j \in 1..(k - 1) : params[j].name \in DeclaredNames

(***************************************************************************)
(* C2 as amended.  If the supplied arguments contain a name that is not    *)
(* among the declared parameters, execute ends in failure at validation    *)
(* and neither conversion, resolution nor the target callable runs; the    *)
(* error is the unknown-parameter error naming the first such name in      *)
(* argument order, unless a required parameter with a null default is      *)
(* absent, in which case the missing-required-parameter error is reported  *)
(* instead.                                                                *)
(***************************************************************************)
C2_UnknownFailsValidation ==
    (WellFormed /\ UnknownNames # {}) =>
        /\ ~PastValidation
        /\ calls = 0
        /\ loads = 0
        /\ pc # "Validating" =>
              /\ pc = "Failed"
              /\ IF AbsentRequiredNoDefault = {}
                 THEN /\ ErrorKind(result.error) = "UnknownParameter"
                      /\ IsFirstUnknown(result.error.inner.arg)
                 ELSE ErrorKind(result.error) = "MissingRequiredParameter"

\* an unknown-parameter failure of a request with two unknown names
C2_Witness ==
    /\ WellFormed
    /\ Cardinality(UnknownNames) = 2
    /\ pc = "Failed"
    /\ ErrorKind(result.error) = "UnknownParameter"

(***************************************************************************)
(* C3.  Invoking a method name that is not in the registry ends in failure *)
(* with a method-not-found error, and no step of that invocation adds,     *)
(* removes or changes an entry of the registry or of the resolver cache.   *)
(***************************************************************************)
C3_NotFoundNoSideEffects ==
    [][(InProgress /\ method_name \notin DOMAIN methods) =>
          /\ methods' = methods
          /\ method_cache' = method_cache
          /\ method_cache = cache0
          /\ pc' \in {"Failed", "Idle"}
          /\ pc' = "Failed" =>
                /\ result' = ExecutionResult(FALSE, NoneV, MsgNotFound(method_name))
                /\ ErrorKind(result'.error) = "MethodNotFound"
                /\ calls' = 0
                /\ loads' = 0]_vars

\* a method-not-found failure while the cache holds a resolved handle
C3_Witness ==
    /\ pc = "Failed"
    /\ method_name \notin DOMAIN methods
    /\ ErrorKind(result.error) = "MethodNotFound"
    /\ DOMAIN method_cache # {}

\* the phases of an invocation, in order, and the steps between them
Phases == <<"Validating", "Converting", "Resolving", "Executing">>
PhaseSteps ==
    {<<"Idle", "Validating">>, <<"Executing", "Executing">>,
     <<"Executing", "Succeeded">>, <<"Succeeded", "Idle">>, <<"Failed", "Idle">>}
    \cup {<<Phases[k], Phases[k + 1]>> : k \in 1..(Len(Phases) - 1)}
    \cup {<<Phases[k], "Failed">> : k \in 1..Len(Phases)}

(***************************************************************************)
(* C4.  Every invocation passes through Validating, Converting, Resolving  *)
(* and Executing in that order, leaves the sequence only by going straight *)
(* to Failed, ends in Succeeded or Failed, and invokes the target callable *)
(* at most once, in the Executing phase only (so after validation,         *)
(* conversion and resolution succeeded); no step is taken twice.           *)
(***************************************************************************)
C4_PhasesInOrder ==
    [][/\ <<pc, pc'>> \in PhaseSteps
       /\ calls' <= 1
       /\ calls' # calls => (pc = "Executing" \/ pc' = "Idle")
       /\ calls' \in {calls, calls + 1} \/ pc' = "Idle"]_vars

(***************************************************************************)
(* C5.  For every method name, argument map and timeout, execute returns   *)
(* a structured result to the caller: no exception leaves execute, and an  *)
(* invocation that has ended has an ExecutionResult.                       *)
(***************************************************************************)
C5_NoExceptionEscapes ==
    /\ raised = NoneV
    /\ pc # "Raised"
    /\ pc \in Terminal => result.t = "ExecutionResult"

(***************************************************************************)
(* C6 as stated.  Every result returned by execute has exactly one of      *)
(* value and error populated: success is true iff the value is populated   *)
(* and the error is absent, and success is false iff the error is          *)
(* populated and no value is reported.                                     *)
(***************************************************************************)
C6_ExactlyOnePopulated ==
    Returned =>
        /\ result.success <=> (result.result # NoneV /\ result.error = NoneV)
        /\ ~result.success <=> (result.error # NoneV /\ result.result = NoneV)

(***************************************************************************)
(* C6 as amended.  Every result returned by execute has an error iff       *)
(* success is false, and a failed result reports no value; a successful    *)
(* result carries the callable's return value as it is, which is None      *)
(* (indistinguishable from no value) when the callable returns None.       *)
(***************************************************************************)
C6_ErrorIffFailure ==
    Returned =>
        /\ result.t = "ExecutionResult"
        /\ result.success <=> pc = "Succeeded"
        /\ result.success <=> result.error = NoneV
        /\ ~result.success => result.result = NoneV
        /\ result.success =>
              /\ CallOutcome(func, prepared_params).kind = "return"
              /\ result.result = CallOutcome(func, prepared_params).value

\* a successful result whose value is the None the callable returned
C6_Witness ==
    /\ pc = "Succeeded"
    /\ result.success
    /\ result.result = NoneV
    /\ result.error = NoneV

\* the kinds of the error taxonomy that execute can report
ListedKinds ==
    {"MethodNotFound", "MissingRequiredParameter", "UnknownParameter",
     "ParameterConversionError", "MethodLoadError", "TimeoutError",
     "ExecutionError"}

\* what made the failed invocation fail, read off the request, the
\* declaration and how far the invocation got
FailureCause ==
    IF ~Registered THEN "MethodNotFound"
    ELSE IF AbsentRequiredNoDefault # {} THEN "MissingRequiredParameter"
    ELSE IF UnknownNames # {} THEN "UnknownParameter"
    ELSE IF FailsAt(Declared, params) # {} THEN "ParameterConversionError"
    ELSE IF func = NoHandle THEN "MethodLoadError"
    ELSE IF calls = 0 THEN "TimeoutSetup"
    ELSE IF CallOutcome(func, prepared_params).kind = "raise" THEN "ExecutionError"
    ELSE "TimeoutError"

(***************************************************************************)
(* C7.  Every failed invocation carries an error kind of the taxonomy, and *)
(* the kind is that of the failure's cause: method not found, missing      *)
(* required parameter, unknown parameter, parameter conversion, method     *)
(* load, timeout, callable execution error each have their own kind.       *)
(***************************************************************************)
C7_KindTellsCause ==
    pc = "Failed" =>
        /\ ErrorKind(result.error) \in ListedKinds
        /\ FailureCause \in ListedKinds => ErrorKind(result.error) = FailureCause

\* the parameters a missing-required-parameter failure reports
ReportedMissing(error) ==
    IF ErrorKind(error) = "MissingRequiredParameter" THEN {error.inner.arg} ELSE {}

IsFirstAbsentNoDefault(n) ==
    \E k \in 1..Len(Declared) :
        /\ Declared[k].name = n
        /\ n \in AbsentRequiredNoDefault
        /\ \A j \in 1..(k - 1) : Declared[j].name \notin AbsentRequiredNoDefault

OmittedWithDefault ==
    {k \in 1..Len(Declared) : /\ ~Declared[k].required
                              /\ Declared[k].default # NoneV
                              /\ Declared[k].name \notin Keys(params)}

\* the request with p = v supplied explicitly as well
WithArg(ps, p, v) == Append(ps, [name |-> p, value |-> v])

\* what execute does with a request before it resolves the callable: the
\* validation failure, the conversion failure, or the keyword arguments
\* prepared for the call
CallPlan(ms, name, ps) ==
    LET v == ValidateParams(ms, name, ps)
    IN  IF v.raised \/ ~v.valid THEN v ELSE PrepareParams(ms[name], ps)

(***************************************************************************)
(* C9.  For every method with an optional parameter p whose declared       *)
(* default is v, execute with p omitted produces the same outcome as       *)
(* execute with p = v supplied explicitly: the same validation or          *)
(* conversion failure, or the same keyword arguments prepared for the      *)
(* callable (resolution and the call read nothing else of the request).    *)
(***************************************************************************)
C9_DefaultSameAsExplicit ==
    (WellFormed /\ pc \notin {"Validating", "Converting"}) =>
        \A k \in OmittedWithDefault :
            LET q == WithArg(params, Declared[k].name, Declared[k].default)
            IN  /\ CallPlan(methods, method_name, q)
                     = CallPlan(methods, method_name, params)
                /\ Prepared =>
                      CallPlan(methods, method_name, q) = Ok(prepared_params)

\* the stored parameter dicts of the method being invoked
StoredDicts == methods[method_name].parameters_json.value
\* a stored dict that declares its parameter optional and that the request
\* leaves out
OmittedOptional(d) ==
    /\ "required" \in DOMAIN d
    /\ ~d.required
    /\ d.name \notin Keys(params)

(***************************************************************************)
(* C10 as stated.  For an optional parameter that is not supplied and has  *)
(* no declared default, the prepared arguments contain no entry for it;    *)
(* an optional parameter whose declared default is a null-like value       *)
(* (null, 0, empty text, false) is passed explicitly with that value.      *)
(***************************************************************************)
C10_NullLikeDefaultPassed ==
    (WellFormed /\ Prepared) =>
        \A k \in 1..Len(StoredDicts) :
            LET d == StoredDicts[k]
            IN  OmittedOptional(d) =>
                  IF "default" \notin DOMAIN d
                  THEN d.name \notin DOMAIN prepared_params
                  ELSE ~PyBool(d.default) =>
                          /\ d.name \in DOMAIN prepared_params
                          /\ prepared_params[d.name] = d.default

(***************************************************************************)
(* C10 as amended.  For an optional parameter that is not supplied and has *)
(* no declared default, or whose declared default is null, the prepared    *)
(* arguments contain no entry for it; an optional parameter whose declared *)
(* default is any other value, null-like ones such as 0 and the empty      *)
(* text included, is passed explicitly with that value.                    *)
(***************************************************************************)
C10_OnlyNullOmitted ==
    (WellFormed /\ Prepared) =>
        \A k \in 1..Len(StoredDicts) :
            LET d == StoredDicts[k]
            IN  OmittedOptional(d) =>
                  IF "default" \notin DOMAIN d \/ d.default = NoneV
                  THEN d.name \notin DOMAIN prepared_params
                  ELSE /\ d.name \in DOMAIN prepared_params
                       /\ prepared_params[d.name] = d.default

\* a call prepared with one optional parameter left out for want of a
\* default and another passed with its null-like default
C10_Witness ==
    /\ WellFormed
    /\ Prepared
    /\ params = <<>>
    /\ \E k \in 1..Len(StoredDicts) :
          /\ OmittedOptional(StoredDicts[k])
          /\ "default" \notin DOMAIN StoredDicts[k]
          /\ StoredDicts[k].name \notin DOMAIN prepared_params
    /\ \E k \in 1..Len(StoredDicts) :
          /\ OmittedOptional(StoredDicts[k])
          /\ "default" \in DOMAIN StoredDicts[k]
          /\ StoredDicts[k].default = StrV(<<>>)
          /\ StoredDicts[k].name \in DOMAIN prepared_params

\* the supplied arguments whose conversion to the declared type fails
Unconvertible == {Declared[k].name : k \in FailsAt(Declared, params)}
\* validate_params accepts the request
Validated == LET v == ValidateParams(methods, method_name, params)
             IN  ~v.raised /\ v.valid

(***************************************************************************)
(* C11.  If converting a supplied argument to its declared type fails,     *)
(* neither resolution nor the target callable runs; and when the request   *)
(* passes validation, so that the conversion is attempted, execute ends in *)
(* failure with a parameter-conversion error that names a parameter whose  *)
(* conversion fails and carries the ValueError of that conversion.         *)
(***************************************************************************)
C11_ConversionFailureAborts ==
    (WellFormed /\ Unconvertible # {}) =>
        /\ ~Prepared
        /\ calls = 0
        /\ loads = 0
        /\ method_cache = cache0
        /\ (Validated /\ pc \notin {"Validating", "Converting"}) =>
              /\ pc = "Failed"
              /\ ErrorKind(result.error) = "ParameterConversionError"
              /\ result.error.inner.arg \in Unconvertible
              /\ result.error.inner.inner.exc = "ValueError"
              /\ result.error.inner.inner.value
                    = Supplied(params, result.error.inner.arg)

\* a conversion failure of a request whose other argument converts
C11_Witness ==
    /\ WellFormed
    /\ pc = "Failed"
    /\ ErrorKind(result.error) = "ParameterConversionError"
    /\ Len(params) = 2
    /\ Cardinality(Unconvertible) = 1

(***************************************************************************)
(* C12.  Resolving the same unmodified declaration twice returns the       *)
(* identical cached handle the second time, and the second resolution      *)
(* performs no module import or symbol lookup: after every resolution step *)
(* that succeeds, resolving again returns the handle that step returned,   *)
(* from the cache, and leaves the cache as it is.                          *)
(***************************************************************************)
C12_SecondResolveFromCache ==
    [][pc = "Resolving" =>
          LET r1 == LoadMethod(method_cache, methods, method_name)
              r2 == LoadMethod(method_cache', methods', method_name')
          IN  r1.ok =>
                /\ pc' = "Executing"
                /\ func' = r1.value
                /\ methods' = methods
                /\ r2.ok
                /\ r2.value = r1.value
                /\ ~r2.imported
                /\ r2.cache = method_cache'
                /\ LoadMethod(r2.cache, methods, method_name) = r2]_vars

\* a second invocation whose callable came from the cache, with no import
C12_Witness ==
    /\ pc = "Executing"
    /\ loads = 0
    /\ method_name \in DOMAIN method_cache
    /\ func = method_cache[method_name]
    /\ func = Handle(methods[method_name].module_path,
                     methods[method_name].function_name)

\* the handle the locator of the declaration now registered under a name
\* points to
Located(name) == Handle(methods[name].module_path, methods[name].function_name)

(***************************************************************************)
(* C13.  After the declaration registered under a name is replaced, the    *)
(* resolver-cache entry for that name is invalidated: no cache entry       *)
(* outlives the declaration it was resolved from, and an invocation of the *)
(* name resolves and calls the callable of the declaration now registered, *)
(* never the handle cached for the old one.                                *)
(***************************************************************************)
C13_CacheInvalidatedOnReregistration ==
    /\ \A n \in DOMAIN method_cache : method_cache[n] = Located(n)
    /\ (Registered /\ pc \in {"Executing", "Succeeded"}) =>
          func = Located(method_name)

\* every entry of one cache is in the other, with the same handle
Keeps(later, earlier) ==
    \A n \in DOMAIN earlier : n \in DOMAIN later /\ later[n] = earlier[n]

(***************************************************************************)
(* C14.  No step of an invocation removes or replaces an existing          *)
(* resolver-cache entry or changes the registry: whatever the outcome      *)
(* (success, a failure at any step, an execution error, a timeout), every  *)
(* handle cached before the step is cached and identical after it, the     *)
(* only entry an invocation can add is that of its own method, and the     *)
(* registry is the same.                                                   *)
(***************************************************************************)
C14_OutcomeKeepsCacheAndRegistry ==
    [][InProgress =>
          /\ methods' = methods
          /\ Keeps(method_cache', method_cache)
          /\ Keeps(method_cache', cache0)
          /\ DOMAIN method_cache' \subseteq DOMAIN method_cache \cup {method_name}
          /\ pc' \in Terminal \ {"Succeeded"} =>
                (pc # "Resolving" => method_cache' = method_cache)]_vars

\* an invocation of m that failed in execution while handles of m and of
\* another method were cached
C14_Witness ==
    /\ pc = "Failed"
    /\ method_name = "m"
    /\ ErrorKind(result.error) \in {"ExecutionError", "TimeoutError"}
    /\ DOMAIN cache0 = {"m", "k"}
    /\ method_cache = cache0

\* why the locator of the declaration registered under a name does not
\* resolve: the first of the three checks of _load_method that it fails
LoadFault(name) ==
    LET mp == methods[name].module_path
        fn == methods[name].function_name
    IN  IF ~ModuleExists(mp) THEN "ModuleNotFound"
        ELSE IF ~HasAttr(mp, fn) THEN "SymbolNotFound"
        ELSE IF ~IsCallable(mp, fn) THEN "NotInvocable"
        ELSE "Resolvable"

\* the cause a method-load error message tells its reader
LoadSubKind(error) ==
    CASE error.text = "Failed to import module '%s': %s" -> "ModuleNotFound"
      [] error.text = "Failed to load method '%s': %s" ->
            (CASE error.inner.text = "Function '%s' not found in module '%s'"
                    -> "SymbolNotFound"
               [] error.inner.text = "'%s' in module '%s' is not callable"
                    -> "NotInvocable"
               [] OTHER -> "Unclassified")
      [] OTHER -> "Unclassified"

\* the request passes validation and conversion, so that execute goes on to
\* resolve the callable
ReachesResolution ==
    /\ WellFormed
    /\ Validated
    /\ Unconvertible = {}

(***************************************************************************)
(* C15.  When the module of the registered declaration cannot be found, or *)
(* the symbol is absent from the module, or the symbol is not invocable,   *)
(* no callable is invoked, and an invocation that gets as far as           *)
(* resolution ends in failure with a method-load error whose sub-kind is   *)
(* the one of these three causes that applies.                             *)
(***************************************************************************)
C15_LoadFailureTold ==
    (Registered /\ LoadFault(method_name) # "Resolvable") =>
        /\ calls = 0
        /\ pc \notin {"Executing", "Succeeded"}
        /\ (ReachesResolution /\ pc \notin {"Validating", "Converting", "Resolving"}) =>
              /\ pc = "Failed"
              /\ ErrorKind(result.error) = "MethodLoadError"
              /\ LoadSubKind(result.error) = LoadFault(method_name)

\* the deadline of the invocation: the per-call timeout, else the default
Deadline == TimeoutSeconds(timeout)
\* the callable has been called
Called == InProgress /\ calls = 1
\* the callable of the invocation is still at work when the deadline
\* passes: it has not returned by then
Overruns ==
    LET o == CallOutcome(func, prepared_params)
    IN  o.kind = "never" \/ o.seconds > Deadline
\* the invocation was cancelled from outside
Cancelled == raised = [exc |-> "KeyboardInterrupt"]
\* execute returned the timeout failure that names the configured duration
TimedOut ==
    /\ pc = "Failed"
    /\ ErrorKind(result.error) = "TimeoutError"
    /\ result.error.inner = MsgExceeded(Deadline)

(***************************************************************************)
(* C16.  Whenever the target callable has not returned by the deadline of  *)
(* the invocation, the invocation (unless cancelled) ends in failure with  *)
(* a timeout error that names the configured duration, and never ends in   *)
(* Succeeded.                                                              *)
(***************************************************************************)
C16_OverrunEndsInTimeout ==
    (Called /\ Overruns /\ ~Cancelled) =>
        /\ pc # "Succeeded"
        /\ pc \in Terminal => TimedOut

(***************************************************************************)
(* C18.  Every Executing step is bounded by a deadline: while the target   *)
(* callable runs and the deadline has not passed, an alarm is armed for    *)
(* the per-call timeout when the request supplies one, otherwise for the   *)
(* executor's default; no invocation reaches the callable with no deadline *)
(* armed.                                                                  *)
(***************************************************************************)
C18_CallableRunsUnderDeadline ==
    (pc = "Executing" /\ calls = 1 /\ sigalrm = "idle") =>
        /\ alarm > 0
        /\ alarm = (IF timeout # NoneV THEN timeout.i ELSE DefaultTimeout)

(***************************************************************************)
(* C19.  An invocation that is cancelled externally before or during the   *)
(* Executing phase terminates with a result of the Cancelled kind, which   *)
(* is neither the timeout outcome nor Succeeded.                           *)
(***************************************************************************)
C19_CancelledOutcome ==
    Cancelled =>
        /\ pc = "Failed"
        /\ result.t = "ExecutionResult"
        /\ ErrorKind(result.error) = "Cancelled"

\* the callable of the invocation was called and raised
CallableRaised ==
    /\ Called
    /\ pc \in Terminal
    /\ CallOutcome(func, prepared_params).kind = "raise"

(***************************************************************************)
(* C20.  Any exception raised by the target callable during Executing is   *)
(* caught by the engine and reported as a failed result of the             *)
(* execution-error kind that carries the exception's type name and         *)
(* message; it is never reported as a timeout or load error and never      *)
(* propagates to the caller.                                               *)
(***************************************************************************)
C20_CallableExceptionReported ==
    CallableRaised =>
        /\ pc = "Failed"
        /\ raised = NoneV
        /\ ErrorKind(result.error) = "ExecutionError"
        /\ result.error.arg = CallOutcome(func, prepared_params).type
        /\ result.error.inner = [text |-> "raised by the callable"]

\* the deadline of the invocation has been breached: its alarm went off
\* while the callable was at work
Breached == InProgress /\ sigalrm # "idle"

(***************************************************************************)
(* C17.  On a deadline breach the engine returns a timeout result to the   *)
(* caller even if the target callable never returns or cannot be           *)
(* interrupted: once the alarm has gone off, execute is never left waiting *)
(* on a callable that will not return, and the result it returns (unless   *)
(* the invocation is cancelled) is the timeout failure.                    *)
(***************************************************************************)
C17_BreachReturnsToCaller ==
    Breached =>
        /\ pc = "Executing" => ENABLED ExecuteFinish
        /\ (pc \in Terminal /\ ~Cancelled) => TimedOut

(***************************************************************************)
(* Concurrent callers.  Two threads call execute on one MethodExecutor;    *)
(* each step below is one of the places where a thread reads or writes     *)
(* what the threads share: self.methods, self._method_cache and the        *)
(* process's SIGALRM.  The registry stays as it is.                        *)
(***************************************************************************)
\* the variables of the single caller, at rest in the models of this part
solo == <<pc, method_name, params, timeout, prepared_params, func, result,
          raised, sigalrm, calls, loads, cache0, decl_read>>

SoloIdle ==
    /\ pc = "Idle"
    /\ method_name = ""
    /\ params = <<>>
    /\ timeout = NoneV
    /\ prepared_params = <<>>
    /\ func = NoHandle
    /\ result = NoneV
    /\ raised = NoneV
    /\ sigalrm = "idle"
    /\ calls = 0
    /\ loads = 0
    /\ cache0 = <<>>
    /\ decl_read = {}

\* the declarations registered under "m" while threads call concurrently
ConcDeclarations ==
    {d \in Declarations :
        /\ d.module_path = "tools"
        /\ d.function_name \in {"sleep", "boom", "absent"}}
    \cup {MethodMetadata("m", JsonText(<<ParamDict("a", "int", TRUE, NoneV)>>),
                         "tools", "echo")}

\* the argument dicts of the concurrent callers
ConcArgs ==
    {ps \in ArgDicts : Len(ps) <= 1 /\ \A i \in 1..Len(ps) : ps[i].name = "a"}

ConcInit ==
    /\ \E d \in ConcDeclarations, pf \in Platforms :
          /\ methods = [n \in {"m", "k"} |-> IF n = "m" THEN d ELSE OtherMethod]
          /\ platform = pf
    /\ method_cache = <<>>
    /\ alarm = 0
    /\ SoloIdle
    /\ AuxIdle

\* a worker goes on to the next phase
Goes(w, to) == workers' = [workers EXCEPT ![w].pc = to]

\* a worker's execute returns ExecutionResult(success=False, error=...)
WFail(w, error) ==
    workers' = [workers EXCEPT ![w].pc = "Failed",
                               ![w].result = ExecutionResult(FALSE, NoneV, error)]

\* a worker's execute is left by an exception
WRaise(w, exc) ==
    workers' = [workers EXCEPT ![w].pc = "Raised", ![w].raised = [exc |-> exc]]

\* a thread calls execute(method_name, params, timeout)
CStart(w) ==
    /\ workers[w].pc = "Idle"
    /\ \E n \in RequestNames, ps \in ConcArgs, t \in Timeouts :
          workers' = [workers EXCEPT ![w].pc = "Validating",
                                     ![w].method_name = n,
                                     ![w].params = ps,
                                     ![w].timeout = t]
    /\ UNCHANGED <<methods, method_cache, alarm, platform, solo, registrar>>

\* execute: the method-exists check and validate_params
CValidate(w) ==
    /\ workers[w].pc = "Validating"
    /\ LET me == workers[w]
       IN  IF ~MethodExists(methods, me.method_name)
           THEN WFail(w, MsgNotFound(me.method_name))
           ELSE LET v == ValidateParams(methods, me.method_name, me.params)
                IN  IF v.raised THEN WRaise(w, v.exc)
                    ELSE IF ~v.valid THEN WFail(w, MsgValidation(v.error))
                    ELSE Goes(w, "Converting")
    /\ UNCHANGED <<methods, method_cache, alarm, platform, solo, registrar>>

\* execute: _prepare_params under except ValueError
CConvert(w) ==
    /\ workers[w].pc = "Converting"
    /\ LET me == workers[w]
           r == PrepareParams(methods[me.method_name], me.params)
       IN  IF r.ok
           THEN workers' = [workers EXCEPT ![w].pc = "Resolving",
                                           ![w].prepared_params = r.value]
           ELSE WFail(w, MsgPreparation(r.error))
    /\ UNCHANGED <<methods, method_cache, alarm, platform, solo, registrar>>

\* _load_method: the cache check, and on a miss the read of the declaration
CLookup(w) ==
    /\ workers[w].pc = "Resolving"
    /\ LET me == workers[w]
       IN  IF Cached(method_cache, me.method_name)
           THEN workers' = [workers EXCEPT ![w].pc = "Executing",
                                           ![w].func = method_cache[me.method_name]]
           ELSE workers' = [workers EXCEPT ![w].pc = "Importing",
                                           ![w].method = methods[me.method_name]]
    /\ UNCHANGED <<methods, method_cache, alarm, platform, solo, registrar>>

\* _load_method: import_module, hasattr, getattr and callable, applied to the
\* declaration the thread has read
Import(method) ==
    LoadMethod(<<>>, [n \in {method.name} |-> method], method.name)

CImport(w) ==
    /\ workers[w].pc = "Importing"
    /\ LET r == Import(workers[w].method)
       IN  IF r.ok
           THEN workers' = [workers EXCEPT ![w].pc = "Storing", ![w].func = r.value]
           ELSE WFail(w, r.error)
    /\ UNCHANGED <<methods, method_cache, alarm, platform, solo, registrar>>

\* _load_method: self._method_cache[method_name] = func
CStore(w) ==
    /\ workers[w].pc = "Storing"
    /\ method_cache' = Store(method_cache, workers[w].method_name, workers[w].func)
    /\ Goes(w, "Executing")
    /\ UNCHANGED <<methods, alarm, platform, solo, registrar>>

\* execute: entering timeout_context.  signal.signal raises ValueError in a
\* thread that is not the main thread; the main thread arms the process's
\* alarm.  On win32 the callable is called with no timeout_context.
CEnter(w) ==
    /\ workers[w].pc = "Executing"
    /\ IF platform = "win32"
       THEN Goes(w, "Calling") /\ UNCHANGED alarm
       ELSE IF w = MainThread
       THEN Goes(w, "Calling") /\ alarm' = TimeoutSeconds(workers[w].timeout)
       ELSE /\ WFail(w, MsgFailed("ValueError",
                          [text |-> "signal only works in main thread"]))
            /\ UNCHANGED alarm
    /\ UNCHANGED <<methods, method_cache, platform, solo, registrar>>

\* the alarm goes off while the main thread's callable is at work (the
\* callables of this part let the TimeoutError pass up to execute)
CAlarm(w) ==
    /\ w = MainThread
    /\ workers[w].pc = "Calling"
    /\ alarm > 0
    /\ LET o == CallOutcome(workers[w].func, workers[w].prepared_params)
       IN  /\ o.kind = "never" \/ o.seconds >= alarm
           /\ o.interruptible /\ ~o.swallows
    /\ WFail(w, MsgTimeout(MsgExceeded(alarm)))
    /\ alarm' = 0
    /\ UNCHANGED <<methods, method_cache, platform, solo, registrar>>

\* what execute makes of a callable that ended
Finished(o) ==
    CASE o.kind = "return" ->
            [pc |-> "Succeeded", result |-> ExecutionResult(TRUE, o.value, NoneV),
             raised |-> NoneV]
      [] o.kind = "raise" /\ ~o.is_exception ->
            [pc |-> "Raised", result |-> NoneV, raised |-> [exc |-> o.type]]
      [] o.kind = "raise" /\ o.is_exception ->
            [pc |-> "Failed", raised |-> NoneV,
             result |-> ExecutionResult(FALSE, NoneV,
                 IF o.timeout_class
                 THEN MsgTimeout([text |-> "raised by the callable"])
                 ELSE MsgFailed(o.type, [text |-> "raised by the callable"]))]

\* the callable returns or raises before an alarm of its thread goes off
CFinish(w) ==
    /\ workers[w].pc = "Calling"
    /\ LET o == CallOutcome(workers[w].func, workers[w].prepared_params)
           f == Finished(o)
       IN  /\ o.kind # "never"
           /\ w # MainThread \/ alarm = 0 \/ o.seconds <= alarm
           /\ workers' = [workers EXCEPT ![w].pc = f.pc, ![w].result = f.result,
                                         ![w].raised = f.raised]
    /\ alarm' = IF w = MainThread THEN 0 ELSE alarm
    /\ UNCHANGED <<methods, method_cache, platform, solo, registrar>>

ConcNext ==
    \E w \in Workers :
        \/ CStart(w)
        \/ CValidate(w)
        \/ CConvert(w)
        \/ CLookup(w)
        \/ CImport(w)
        \/ CStore(w)
        \/ CEnter(w)
        \/ CAlarm(w)
        \/ CFinish(w)

ConcSpec == ConcInit /\ [][ConcNext]_vars

\* execute, run from start to end by the only caller of a fresh executor on
\* the main thread: where it ends, what it returns and what leaves it
Alone(ms, name, ps, t, pf) ==
    LET failed(e) == [pc |-> "Failed", raised |-> NoneV,
                      result |-> ExecutionResult(FALSE, NoneV, e)]
    IN  IF ~MethodExists(ms, name) THEN failed(MsgNotFound(name))
        ELSE LET v == ValidateParams(ms, name, ps)
             IN  IF v.raised
                 THEN [pc |-> "Raised", result |-> NoneV, raised |-> [exc |-> v.exc]]
                 ELSE IF ~v.valid THEN failed(MsgValidation(v.error))
                 ELSE LET r == PrepareParams(ms[name], ps)
                      IN  IF ~r.ok THEN failed(MsgPreparation(r.error))
                          ELSE LET l == LoadMethod(<<>>, ms, name)
                               IN  IF ~l.ok THEN failed(l.error)
                                   ELSE LET o == CallOutcome(l.value, r.value)
                                            secs == IF pf = "win32" THEN 0
                                                    ELSE TimeoutSeconds(t)
                                        IN  IF secs > 0 /\ o.seconds > secs
                                            THEN failed(MsgTimeout(MsgExceeded(secs)))
                                            ELSE Finished(o)

\* what a worker's invocation has come to
Outcome(w) ==
    [pc |-> workers[w].pc, result |-> workers[w].result,
     raised |-> workers[w].raised]

\* the worker's callable is at work under a deadline of its own
OwnDeadline(w) ==
    /\ platform # "win32"
    /\ w = MainThread
    /\ alarm = TimeoutSeconds(workers[w].timeout)

\* C21: whatever the interleaving, an invocation of a concurrent worker
\* ends as it would have ended alone, and while its callable is at work the
\* invocation has a deadline of its own
C21_ConcurrentAsAlone ==
    \A w \in Workers :
        /\ workers[w].pc \in Terminal =>
              Outcome(w) = Alone(methods, workers[w].method_name,
                                 workers[w].params, workers[w].timeout, platform)
        /\ workers[w].pc = "Calling" => OwnDeadline(w)

\* no thread is inside _load_method
ResolutionsFinished ==
    \A w \in Workers : workers[w].pc \notin {"Resolving", "Importing", "Storing"}

\* the thread's _load_method returned a function
Resolved(w) == workers[w].func # NoHandle

\* C22: once the concurrent resolutions have finished, every name that was
\* resolved is in the cache, and every cache entry is the function of the
\* declaration registered under its own name
C22_CacheConsistent ==
    ResolutionsFinished =>
        /\ \A w \in Workers : Resolved(w) =>
              workers[w].method_name \in DOMAIN method_cache
        /\ \A n \in DOMAIN method_cache :
              /\ n \in DOMAIN methods
              /\ method_cache[n] = Located(n)

\* two threads have resolved two different names, both on a cache miss
C22_Witness ==
    /\ ResolutionsFinished
    /\ \A w \in Workers : Resolved(w) /\ workers[w].method # NoneV
    /\ workers[1].method_name # workers[2].method_name
    /\ DOMAIN method_cache = {"m", "k"}

(***************************************************************************)
(* The registry updated during an invocation.  self.methods is the dict    *)
(* of the executor's owner, who stores and removes declarations while the  *)
(* single caller's invocation is between two of its steps.                 *)
(***************************************************************************)
\* the declarations the owner registers under "m"
RaceDeclarations ==
    {MethodMetadata("m", JsonText(<<ParamDict("a", "int", TRUE, NoneV)>>),
                    "tools", "echo"),
     MethodMetadata("m", JsonText(<<ParamDict("b", "string", TRUE, NoneV)>>),
                    "tools", "echo"),
     MethodMetadata("m", JsonText(<<>>), "tools", "sleep")}

RaceInit ==
    /\ \E d \in RaceDeclarations :
          methods = [n \in {"m", "k"} |-> IF n = "m" THEN d ELSE OtherMethod]
    /\ platform = "linux"
    /\ method_cache = <<>>
    /\ alarm = 0
    /\ SoloIdle
    /\ AuxIdle

\* the owner stores a declaration under its name: methods[d.name] = d
Upsert ==
    /\ \E d \in RaceDeclarations :
          /\ d.name \in DOMAIN methods => methods[d.name] # d
          /\ methods' = [n \in DOMAIN methods \cup {d.name} |->
                            IF n = d.name THEN d ELSE methods[n]]
    /\ UNCHANGED <<method_cache, alarm, platform, solo, aux>>

\* the owner removes a declaration: del methods["m"]
Remove ==
    /\ "m" \in DOMAIN methods
    /\ methods' = [n \in DOMAIN methods \ {"m"} |-> methods[n]]
    /\ UNCHANGED <<method_cache, alarm, platform, solo, aux>>

RaceNext ==
    \/ Start
    \/ Validate
    \/ Convert
    \/ Resolve
    \/ ExecuteCall
    \/ AlarmFires
    \/ ExecuteFinish
    \/ Return
    \/ Upsert
    \/ Remove

RaceSpec == RaceInit /\ [][RaceNext]_vars

\* C23: an invocation during which the registry is updated reads one
\* declaration of its method in validation, conversion and resolution, and
\* ends with an ExecutionResult
C23_OneDeclarationAndResult ==
    /\ Cardinality(decl_read) <= 1
    /\ pc \in Terminal => result # NoneV /\ raised = NoneV

(***************************************************************************)
(* The metadata validator (method-registration/src/validator.py).          *)
(* A text is given by its first characters and the number of letters "x"   *)
(* that follow them, so that texts longer than the validator's limits can  *)
(* be written down.                                                        *)
(***************************************************************************)
Txt(head, more) == [head |-> head, more |-> more]
NoTxt == Txt(<<>>, 0)
\* len(text)
TLen(s) == Len(s.head) + s.more

\* str.isidentifier: the characters that may start a name, and go on in it
Letters == {"a", "b", "f", "i", "x", "_"}
IdentDigits == {"1"}
\* keyword.iskeyword
Keywords == {<<"i", "f">>}

\* MetadataValidator._is_valid_identifier
IsValidIdentifier(s) ==
    /\ TLen(s) > 0
    /\ Len(s.head) > 0 => s.head[1] \in Letters
    /\ \A i \in 1..Len(s.head) : s.head[i] \in Letters \cup IdentDigits
    /\ ~(s.more = 0 /\ s.head \in Keywords)

\* str.split('.')
RECURSIVE Split(_)
Split(cs) ==
    IF \A i \in 1..Len(cs) : cs[i] # "." THEN <<cs>>
    ELSE LET k == CHOOSE i \in 1..Len(cs) :
                     cs[i] = "." /\ \A j \in 1..(i - 1) : cs[j] # "."
         IN  <<SubSeq(cs, 1, k - 1)>> \o Split(SubSeq(cs, k + 1, Len(cs)))

\* MetadataValidator._is_valid_module_path
IsValidModulePath(s) ==
    /\ TLen(s) > 0
    /\ LET parts == Split(s.head)
       IN  \A k \in 1..Len(parts) :
              IsValidIdentifier(Txt(parts[k], IF k = Len(parts) THEN s.more ELSE 0))

\* MetadataValidator.VALID_TYPES
VALID_TYPES ==
    {"string", "str", "int", "integer", "float", "bool", "boolean", "dict",
     "dictionary", "list", "array", "tuple", "set", "None", "NoneType", "Any",
     "bytes", "bytearray"}

\* MetadataValidator._is_valid_type
IsValidType(type_str) == type_str # "" /\ type_str \in VALID_TYPES

\* the limits of validate_method
NameMin == 2
NameMax == 100
DescriptionMax == 1000
ParamDescriptionMax == 500

\* MethodConfig, and its MethodParameter as far as the validator reads it
MethodConfig(name, description, parameters, return_type, module_path, function_name) ==
    [name |-> name, description |-> description, parameters |-> parameters,
     return_type |-> return_type, module_path |-> module_path,
     function_name |-> function_name]
ConfigParameter(name, type, description) ==
    [name |-> name, type |-> type, description |-> description]

\* ValidationResult
ValidationResult(valid, errors, name) ==
    [valid |-> valid, errors |-> errors, method_name |-> name]

\* an add_error that leaves the result valid
AddError_keepsValid(res, error) ==
    [res EXCEPT !.errors = Append(res.errors, error)]

\* ValidationResult.add_error
AddError(res, error) ==
    [res EXCEPT !.valid = FALSE, !.errors = Append(res.errors, error)]

\* an error message of the validator: the field it is about, the index of
\* the parameter (0 for the method's own fields), and the rule broken
VError(field, index, rule) == [field |-> field, index |-> index, rule |-> rule]

\* validate_method: the checks of the method name
NameErrors(m) ==
    IF TLen(m.name) = 0 THEN <<VError("name", 0, "required")>>
    ELSE (IF TLen(m.name) < NameMin THEN <<VError("name", 0, "too short")>>
          ELSE IF TLen(m.name) > NameMax THEN <<VError("name", 0, "too long")>>
          ELSE <<>>)
         \o (IF ~IsValidIdentifier(m.name)
             THEN <<VError("name", 0, "not an identifier")>> ELSE <<>>)

\* validate_method: description, module path, function name, return type
DescriptionErrors(m) ==
    IF TLen(m.description) = 0 THEN <<VError("description", 0, "required")>>
    ELSE IF TLen(m.description) > DescriptionMax
    THEN <<VError("description", 0, "too long")>>
    ELSE <<>>

ModulePathErrors(m) ==
    IF TLen(m.module_path) = 0 THEN <<VError("module_path", 0, "required")>>
    ELSE IF ~IsValidModulePath(m.module_path)
    THEN <<VError("module_path", 0, "not valid")>>
    ELSE <<>>

FunctionNameErrors(m) ==
    IF TLen(m.function_name) = 0 THEN <<VError("function_name", 0, "required")>>
    ELSE IF ~IsValidIdentifier(m.function_name)
    THEN <<VError("function_name", 0, "not an identifier")>>
    ELSE <<>>

ReturnTypeErrors(m) ==
    IF m.return_type = "" THEN <<VError("return_type", 0, "required")>>
    ELSE IF ~IsValidType(m.return_type)
    THEN <<VError("return_type", 0, "not recognized")>>
    ELSE <<>>

\* validate_method: the loop over the parameters from index idx on, with
\* the names seen before it
RECURSIVE ParameterErrors(_, _, _)
ParameterErrors(ps, idx, param_names_seen) ==
    IF idx > Len(ps) THEN <<>>
    ELSE LET param == ps[idx]
             name == IF TLen(param.name) = 0
                     THEN <<VError("param.name", idx, "missing")>>
                     ELSE (IF param.name \in param_names_seen
                           THEN <<VError("param.name", idx, "duplicate")>>
                           ELSE <<>>)
                          \o (IF ~IsValidIdentifier(param.name)
                              THEN <<VError("param.name", idx, "not an identifier")>>
                              ELSE <<>>)
             type == IF param.type = ""
                     THEN <<VError("param.type", idx, "missing")>>
                     ELSE IF ~IsValidType(param.type)
                     THEN <<VError("param.type", idx, "invalid")>>
                     ELSE <<>>
             description ==
                     IF TLen(param.description) = 0
                     THEN <<VError("param.description", idx, "missing")>>
                     ELSE IF TLen(param.description) > ParamDescriptionMax
                     THEN <<VError("param.description", idx, "too long")>>
                     ELSE <<>>
             seen == IF TLen(param.name) = 0 THEN param_names_seen
                     ELSE param_names_seen \cup {param.name}
         IN  name \o type \o description \o ParameterErrors(ps, idx + 1, seen)

\* result.add_error for each of the errors, in order
RECURSIVE AddErrors(_, _)
AddErrors(res, errors) ==
    IF errors = <<>> THEN res
    ELSE AddErrors(AddError(res, Head(errors)), Tail(errors))

\* MetadataValidator.validate_method
ValidateMethod(m) ==
    AddErrors(ValidationResult(TRUE, <<>>, m.name),
              NameErrors(m) \o DescriptionErrors(m) \o ModulePathErrors(m)
              \o FunctionNameErrors(m) \o ReturnTypeErrors(m)
              \o ParameterErrors(m.parameters, 1, {}))

\* the method configurations handed to the validator: every field with a
\* good value and with values that break each of its rules
MaxParams == 2
GoodText == Txt(<<"a", "b">>, 0)
ConfigNames ==
    {GoodText, NoTxt, Txt(<<"a">>, 0), Txt(<<"1">>, 0), Txt(<<"i", "f">>, 0),
     Txt(<<"a">>, NameMax)}
ConfigDescriptions == {GoodText, NoTxt, Txt(<<>>, DescriptionMax + 1)}
ConfigModulePaths == {Txt(<<"a", ".", "b">>, 0), NoTxt, Txt(<<"a", ".", ".", "b">>, 0)}
ConfigFunctionNames == {GoodText, NoTxt, Txt(<<"1", "f">>, 0)}
ConfigReturnTypes == {"dict", "", "number"}
ConfigParameters ==
    {ConfigParameter(GoodText, "int", GoodText),
     ConfigParameter(Txt(<<"b">>, 0), "string", GoodText),
     ConfigParameter(GoodText, "number", GoodText),
     ConfigParameter(NoTxt, "", NoTxt),
     ConfigParameter(Txt(<<"1">>, 0), "Int", Txt(<<>>, ParamDescriptionMax + 1))}
ConfigParameterLists == UNION {[1..n -> ConfigParameters] : n \in 0..MaxParams}
MethodConfigs ==
    {MethodConfig(n, d, ps, rt, mp, fn) :
        n \in ConfigNames, d \in ConfigDescriptions, ps \in ConfigParameterLists,
        rt \in ConfigReturnTypes, mp \in ConfigModulePaths,
        fn \in ConfigFunctionNames}

\* the executor at rest
ExecutorIdle ==
    /\ methods = <<>>
    /\ method_cache = <<>>
    /\ platform = "linux"
    /\ alarm = 0
    /\ SoloIdle
    /\ WorkersIdle
    /\ ServicesIdle
executor == <<methods, method_cache, platform, alarm, solo, workers, services>>
\* the registration run and its table
registry == <<method_configs, validation_results, registered_methods,
              registration>>

ValidatorInit ==
    /\ method_config \in MethodConfigs
    /\ validation_result = NoneV
    /\ ExecutorIdle
    /\ RegistrationIdle
    /\ ConversionIdle

\* a caller has validate_method check the configuration
CallValidateMethod ==
    /\ validation_result = NoneV
    /\ validation_result' = ValidateMethod(method_config)
    /\ UNCHANGED <<method_config, executor, registry, conversion>>

ValidatorNext == CallValidateMethod

ValidatorSpec == ValidatorInit /\ [][ValidatorNext]_vars

\* the set holding e if the condition is met, else no element
DefectIf(condition, e) == IF condition THEN {e} ELSE {}

\* the independent structural defects of a configuration, rule by rule: a
\* field that is absent has that one defect, a field that is present has
\* one defect for each rule its value breaks
FieldDefects(m) ==
    DefectIf(TLen(m.name) = 0, VError("name", 0, "required"))
    \cup DefectIf(TLen(m.name) = 1, VError("name", 0, "too short"))
    \cup DefectIf(TLen(m.name) > NameMax, VError("name", 0, "too long"))
    \cup DefectIf(TLen(m.name) > 0 /\ ~IsValidIdentifier(m.name),
                  VError("name", 0, "not an identifier"))
    \cup DefectIf(TLen(m.description) = 0, VError("description", 0, "required"))
    \cup DefectIf(TLen(m.description) > DescriptionMax,
                  VError("description", 0, "too long"))
    \cup DefectIf(TLen(m.module_path) = 0, VError("module_path", 0, "required"))
    \cup DefectIf(TLen(m.module_path) > 0 /\ ~IsValidModulePath(m.module_path),
                  VError("module_path", 0, "not valid"))
    \cup DefectIf(TLen(m.function_name) = 0,
                  VError("function_name", 0, "required"))
    \cup DefectIf(TLen(m.function_name) > 0 /\ ~IsValidIdentifier(m.function_name),
                  VError("function_name", 0, "not an identifier"))
    \cup DefectIf(m.return_type = "", VError("return_type", 0, "required"))
    \cup DefectIf(m.return_type # "" /\ m.return_type \notin VALID_TYPES,
                  VError("return_type", 0, "not recognized"))

ParameterDefects(ps, k) ==
    DefectIf(TLen(ps[k].name) = 0, VError("param.name", k, "missing"))
    \cup DefectIf(/\ TLen(ps[k].name) > 0
                  /\ \E j \in 1..(k - 1) : ps[j].name = ps[k].name,
                  VError("param.name", k, "duplicate"))
    \cup DefectIf(TLen(ps[k].name) > 0 /\ ~IsValidIdentifier(ps[k].name),
                  VError("param.name", k, "not an identifier"))
    \cup DefectIf(ps[k].type = "", VError("param.type", k, "missing"))
    \cup DefectIf(ps[k].type # "" /\ ps[k].type \notin VALID_TYPES,
                  VError("param.type", k, "invalid"))
    \cup DefectIf(TLen(ps[k].description) = 0,
                  VError("param.description", k, "missing"))
    \cup DefectIf(TLen(ps[k].description) > ParamDescriptionMax,
                  VError("param.description", k, "too long"))

Defects(m) ==
    FieldDefects(m)
    \cup UNION {ParameterDefects(m.parameters, k) : k \in 1..Len(m.parameters)}

\* C24: validate_method reports each independent defect of the
\* configuration once: as many errors as defects, each defect among them,
\* and valid is false exactly if there is a defect
C24_EveryDefectOnce ==
    validation_result # NoneV =>
        LET errors == validation_result.errors
        IN  /\ Len(errors) = Cardinality(Defects(method_config))
            /\ {errors[i] : i \in 1..Len(errors)} = Defects(method_config)
            /\ validation_result.valid <=> Defects(method_config) = {}

\* a configuration with a defect in its name, its return type and in each
\* of two parameters has been validated
C24_Witness ==
    /\ validation_result # NoneV
    /\ Len(validation_result.errors) >= 4
    /\ \E e \in Defects(method_config) : e.field = "name"
    /\ \E e \in Defects(method_config) : e.field = "return_type"
    /\ \A k \in 1..2 : \E e \in Defects(method_config) : e.index = k

(***************************************************************************)
(* Batch validation and the registration run (validator.py,                *)
(* method-registration/src/main.py, db_client.py).                         *)
(***************************************************************************)
\* validate_methods, first pass: the non-empty names met a second time
DuplicateNames(ms) ==
    {ms[j].name : j \in {j \in 1..Len(ms) :
        /\ TLen(ms[j].name) > 0
        /\ \E i \in 1..(j - 1) : ms[i].name = ms[j].name}}

\* a second pass that blames only the later of two methods of one name
IsDuplicate_laterOnly(ms, k) ==
    /\ TLen(ms[k].name) > 0
    /\ \E i \in 1..(k - 1) : ms[i].name = ms[k].name

\* validate_methods, second pass: method.name and method.name in duplicate_names
IsDuplicate(ms, k) ==
    /\ TLen(ms[k].name) > 0
    /\ ms[k].name \in DuplicateNames(ms)

DuplicateError == VError("name", 0, "duplicate in configuration")

\* MetadataValidator.validate_methods
ValidateMethods(ms) ==
    [k \in 1..Len(ms) |->
        IF IsDuplicate(ms, k)
        THEN AddError(ValidateMethod(ms[k]), DuplicateError)
        ELSE ValidateMethod(ms[k])]

\* json.dumps of the parameter dicts main builds (required and default,
\* which the validator never reads, are left out)
ParamsJson(ps) ==
    JsonText([k \in 1..Len(ps) |->
                 [name |-> ps[k].name, type |-> ps[k].type,
                  description |-> ps[k].description]])

\* main: the MethodMetadata built from a MethodConfig, as the columns the
\* INSERT names
ToMetadata(m) ==
    [name |-> m.name, description |-> m.description,
     parameters_json |-> ParamsJson(m.parameters), return_type |-> m.return_type,
     module_path |-> m.module_path, function_name |-> m.function_name]

\* the columns of a row that hold the declaration
DeclarationColumns ==
    {"name", "description", "parameters_json", "return_type", "module_path",
     "function_name"}
Declaration(row) == [c \in DeclarationColumns |-> row[c]]

\* an ON CONFLICT clause that leaves the locator of the row as it was
OnConflict_keepsLocator(old, new) ==
    [new EXCEPT !.module_path = old.module_path,
                !.function_name = old.function_name] @@ [created |-> old.created]

\* ON CONFLICT (name) DO UPDATE SET ...: the row keeps its id and created_at
OnConflict(old, new) == new @@ [created |-> old.created]

\* INSERT INTO registered_methods ... ON CONFLICT (name) DO UPDATE
UpsertRow(table, new) ==
    [n \in DOMAIN table \cup {new.name} |->
        IF n # new.name THEN table[n]
        ELSE IF n \in DOMAIN table THEN OnConflict(table[n], new)
        ELSE new @@ [created |-> "by this run"]]

\* upsert_methods: the statements of the transaction, in order
RECURSIVE UpsertMethods(_, _)
UpsertMethods(table, rows) ==
    IF rows = <<>> THEN table
    ELSE UpsertMethods(UpsertRow(table, Head(rows)), Tail(rows))

\* db_schema: module_path VARCHAR(255), function_name VARCHAR(100)
ModulePathColumn == 255
FunctionNameColumn == 100
FitsColumns(m) ==
    /\ TLen(m.module_path) <= ModulePathColumn
    /\ TLen(m.function_name) <= FunctionNameColumn

\* the methods of a methods configuration: two good ones of different
\* names, a second good one and a bad one of the first name, one without a
\* name, and a good one whose module path the column cannot hold
MaxBatch == 3
OtherText == Txt(<<"b", "a">>, 0)
GoodConfig ==
    MethodConfig(GoodText, GoodText, <<ConfigParameter(GoodText, "int", GoodText)>>,
                 "dict", Txt(<<"a", ".", "b">>, 0), GoodText)
RegConfigs ==
    {GoodConfig,
     MethodConfig(GoodText, OtherText, <<>>, "int", OtherText, OtherText),
     [GoodConfig EXCEPT !.name = OtherText],
     [GoodConfig EXCEPT !.return_type = "number"],
     [GoodConfig EXCEPT !.name = NoTxt],
     [GoodConfig EXCEPT !.name = Txt(<<"b", "b">>, 0),
                        !.module_path = Txt(<<"a">>, ModulePathColumn)]}
Batches == UNION {[1..n -> RegConfigs] : n \in 0..MaxBatch}

\* the table before the run: empty, or holding an older declaration of the
\* first name and a row of a name the configuration does not mention
PriorRow(name) ==
    ToMetadata(MethodConfig(name, Txt(<<"x">>, 0), <<>>, "str", Txt(<<"x">>, 0),
                            Txt(<<"x">>, 0)))
    @@ [created |-> "by an earlier run"]
PriorTables ==
    {<<>>,
     [n \in {GoodText, Txt(<<"x", "x">>, 0)} |-> PriorRow(n)]}

RegInit ==
    /\ method_configs \in Batches
    /\ validation_results = <<>>
    /\ registered_methods \in PriorTables
    /\ \E dry \in BOOLEAN :
          registration = [pc |-> "Loaded", dry_run |-> dry, exit_code |-> NoneV]
    /\ ExecutorIdle
    /\ ValidatorIdle
    /\ ConversionIdle

\* main: return <code>
Exit(code) == registration' = [registration EXCEPT !.pc = "Exited", !.exit_code = code]

\* main, step 3: validator.validate_methods(methods)
RegValidate ==
    /\ registration.pc = "Loaded"
    /\ validation_results' = ValidateMethods(method_configs)
    /\ registration' = [registration EXCEPT !.pc = "Validated"]
    /\ UNCHANGED <<method_configs, registered_methods, executor, method_config,
                   validation_result, conversion>>

\* main: failed_validations is not empty
FailedValidations ==
    {k \in 1..Len(validation_results) : ~validation_results[k].valid}

RegReject ==
    /\ registration.pc = "Validated"
    /\ FailedValidations # {}
    /\ Exit(1)
    /\ UNCHANGED <<method_configs, validation_results, registered_methods,
                   executor, method_config, validation_result, conversion>>

\* main, step 4 with --dry-run
RegDryRun ==
    /\ registration.pc = "Validated"
    /\ FailedValidations = {}
    /\ registration.dry_run
    /\ Exit(0)
    /\ UNCHANGED <<method_configs, validation_results, registered_methods,
                   executor, method_config, validation_result, conversion>>

\* main, step 4: upsert_methods commits its transaction
RegWrite ==
    /\ registration.pc = "Validated"
    /\ FailedValidations = {}
    /\ ~registration.dry_run
    /\ \A k \in 1..Len(method_configs) : FitsColumns(method_configs[k])
    /\ registered_methods' =
          UpsertMethods(registered_methods,
                        [k \in 1..Len(method_configs) |-> ToMetadata(method_configs[k])])
    /\ Exit(0)
    /\ UNCHANGED <<method_configs, validation_results, executor, method_config,
                   validation_result, conversion>>

\* main, step 4: the database refuses a statement or cannot be reached;
\* upsert_methods rolls its transaction back and main returns 1
RegWriteFails ==
    /\ registration.pc = "Validated"
    /\ FailedValidations = {}
    /\ ~registration.dry_run
    /\ Exit(1)
    /\ UNCHANGED <<method_configs, validation_results, registered_methods,
                   executor, method_config, validation_result, conversion>>

RegNext ==
    \/ RegValidate
    \/ RegReject
    \/ RegDryRun
    \/ RegWrite
    \/ RegWriteFails

RegSpec == RegInit /\ [][RegNext]_vars

\* validate_methods has returned
BatchValidated == registration.pc \in {"Validated", "Exited"}

\* the k-th method of the batch shares its non-empty name with another one
Collides(k) ==
    /\ TLen(method_configs[k].name) > 0
    /\ \E j \in 1..Len(method_configs) :
          j # k /\ method_configs[j].name = method_configs[k].name

\* how many duplicate-name errors a result carries
DuplicateErrors(r) ==
    Cardinality({i \in 1..Len(r.errors) : r.errors[i] = DuplicateError})

IsOwnError(e) == e # DuplicateError

\* C25: validate_methods returns one result per method, in the order of
\* the input; the result of each method whose non-empty name occurs more
\* than once carries one duplicate-name error, the others carry none
C25_EveryCollidingMethodBlamed ==
    BatchValidated =>
        /\ Len(validation_results) = Len(method_configs)
        /\ \A k \in 1..Len(method_configs) :
              LET r == validation_results[k]
              IN  /\ r.method_name = method_configs[k].name
                  /\ SelectSeq(r.errors, IsOwnError)
                        = ValidateMethod(method_configs[k]).errors
                  /\ DuplicateErrors(r) = IF Collides(k) THEN 1 ELSE 0

\* a batch of three was validated whose first and last method share a
\* name and whose second has a name of its own
C25_Witness ==
    /\ BatchValidated
    /\ Len(method_configs) = 3
    /\ Collides(1) /\ Collides(3) /\ ~Collides(2)
    /\ TLen(method_configs[2].name) > 0
    /\ DuplicateErrors(validation_results[1]) = 1

\* validation does not accept the k-th method of the batch
Rejected(k) == ~ValidateMethod(method_configs[k]).valid \/ Collides(k)

\* the names of the batch
BatchNames == {method_configs[k].name : k \in 1..Len(method_configs)}

\* C26: the table changes only in a run whose batch was validated and
\* accepted as a whole; a run with a rejected method writes nothing; and
\* after a write the row of each method of the batch holds that method's
\* declaration in every column, the other rows being as before
C26_OnlyAcceptedBatchPersisted ==
    [][/\ registered_methods' # registered_methods =>
             /\ registration.pc = "Validated"
             /\ \A k \in 1..Len(method_configs) : ~Rejected(k)
       /\ (\E k \in 1..Len(method_configs) : Rejected(k)) =>
             registered_methods' = registered_methods
       /\ (registration'.pc = "Exited" /\ registration'.exit_code = 0
           /\ ~registration.dry_run) =>
             /\ \A k \in 1..Len(method_configs) :
                   /\ method_configs[k].name \in DOMAIN registered_methods'
                   /\ Declaration(registered_methods'[method_configs[k].name])
                         = ToMetadata(method_configs[k])
             /\ \A n \in DOMAIN registered_methods \ BatchNames :
                   /\ n \in DOMAIN registered_methods'
                   /\ registered_methods'[n] = registered_methods[n]
             /\ DOMAIN registered_methods' = DOMAIN registered_methods \cup BatchNames
      ]_vars

\* a run has replaced the row an earlier run had written for a name, and
\* left the row of another name alone
C26_Witness ==
    /\ registration.pc = "Exited"
    /\ registration.exit_code = 0
    /\ ~registration.dry_run
    /\ GoodConfig \in {method_configs[k] : k \in 1..Len(method_configs)}
    /\ GoodText \in DOMAIN registered_methods
    /\ registered_methods[GoodText].created = "by an earlier run"
    /\ Declaration(registered_methods[GoodText]) = ToMetadata(GoodConfig)
    /\ Declaration(registered_methods[GoodText]) # Declaration(PriorRow(GoodText))

(***************************************************************************)
(* _convert_type called on its own, and once more on what it returned.     *)
(***************************************************************************)
\* the values handed to _convert_type
ConvertTexts ==
    {<<>>, <<"5">>, <<"-", "3">>, <<"2", ".", "5">>, <<"x">>, <<"0">>, <<"1">>,
     <<"t", "r", "u", "e">>, <<"T", "r", "u", "e">>, <<"Y", "E", "S">>,
     <<"f", "a", "l", "s", "e">>, <<"F", "A", "L", "S", "E">>, <<"N", "o">>,
     <<"o", "f", "f">>, <<"{", "}">>, <<"[", "]">>, <<"n", "u", "l", "l">>,
     <<"\"", "x", "\"">>}
ConvertValues ==
    {NoneV, BoolV(TRUE), BoolV(FALSE), IntV(0), IntV(5), IntV(-3), FloatV(25),
     FloatV(0), DictV(<<>>), ListV(<<>>)}
    \cup {StrV(cs) : cs \in ConvertTexts}

\* the keys of type_checks: the type names _convert_type converts to
SupportedTypes ==
    {"string", "str", "int", "integer", "float", "number", "bool", "boolean",
     "dict", "object", "list", "array"}

\* the type names a parameter may be declared with
TypeNames ==
    SupportedTypes \cup VALID_TYPES \cup {"Int", "String", "Bool", "zzz"}

ConvertInit ==
    /\ \E v \in ConvertValues, k \in TypeNames :
          conversion = [pc |-> "Called", value |-> v, target_type |-> k]
    /\ ExecutorIdle
    /\ ValidatorIdle
    /\ RegistrationIdle

\* _convert_type(value, target_type) returns or raises
CallConvertType ==
    /\ conversion.pc = "Called"
    /\ conversion' =
          [conversion EXCEPT !.pc = "Converted"]
          @@ [first |-> ConvertType(conversion.value, conversion.target_type)]
    /\ UNCHANGED <<executor, method_config, validation_result, registry>>

\* _convert_type(converted, target_type): the value it returned, converted
\* to the same type once more
CallConvertTypeAgain ==
    /\ conversion.pc = "Converted"
    /\ conversion.first.ok
    /\ conversion' =
          [conversion EXCEPT !.pc = "ConvertedAgain"]
          @@ [second |-> ConvertType(conversion.first.value,
                                     conversion.target_type)]
    /\ UNCHANGED <<executor, method_config, validation_result, registry>>

ConvertNext ==
    \/ CallConvertType
    \/ CallConvertTypeAgain

ConvertSpec == ConvertInit /\ [][ConvertNext]_vars

\* _convert_type has returned or raised
Converted == conversion.pc \in {"Converted", "ConvertedAgain"}
TargetType == LowerName(conversion.target_type)

\* C27: a conversion to a supported type that succeeds returns a value of
\* that type (text converted to dict gives a dict, to list a list), and
\* converting that value to the type once more returns it unchanged
C27_ConvertedIsOfTargetType ==
    (Converted /\ TargetType \in SupportedTypes /\ conversion.first.ok) =>
        /\ TypeMatches(conversion.first.value, TargetType)
        /\ conversion.pc = "ConvertedAgain" =>
              /\ conversion.second.ok
              /\ conversion.second.value = conversion.first.value

\* the words of the string-to-boolean table
TrueWords == {<<"t", "r", "u", "e">>, <<"1">>, <<"y", "e", "s">>}
FalseWords == {<<"f", "a", "l", "s", "e">>, <<"0">>, <<"n", "o">>}

\* C28: text converted to boolean never fails; it gives true for "true",
\* "1", "yes" and false for "false", "0", "no" in any case of the letters,
\* and for any other text true exactly if the text is not empty
C28_TextToBoolean ==
    (Converted /\ conversion.value.t = "str" /\ TargetType \in {"bool", "boolean"}) =>
        /\ conversion.first.ok
        /\ conversion.first.value =
              BoolV(IF LowerText(conversion.value.s) \in TrueWords THEN TRUE
                    ELSE IF LowerText(conversion.value.s) \in FalseWords THEN FALSE
                    ELSE conversion.value.s # <<>>)

\* the text FALSE, in capitals, was converted to boolean and gave false
C28_Witness ==
    /\ Converted
    /\ conversion.value = StrV(<<"F", "A", "L", "S", "E">>)
    /\ TargetType = "boolean"
    /\ conversion.first = Ok(BoolV(FALSE))

\* the conversions the claim names as incompatible: object to integer,
\* object to string, float to integer, array to object
Incompatible(value, target) ==
    \/ value.t = "dict" /\ target \in {"int", "integer", "string", "str"}
    \/ value.t = "float" /\ target \in {"int", "integer"}
    \/ value.t = "list" /\ target \in {"dict", "object"}

\* C29: a conversion between incompatible shapes raises the conversion
\* error, which carries the value and the target type, and returns no value
C29_IncompatibleShapesFail ==
    (Converted /\ Incompatible(conversion.value, TargetType)) =>
        /\ ~conversion.first.ok
        /\ conversion.first.value = conversion.value
        /\ conversion.first.target = TargetType

\* C30: a type name passes the validator exactly if _convert_type has a
\* conversion for it, so that no accepted parameter type takes the
\* unknown-type branch and no convertible type is rejected
C30_OneTypeVocabulary ==
    IsValidType(conversion.target_type) <=> TargetType \in SupportedTypes

(***************************************************************************)
(* C34.  Only successful resolutions are memoized: the cache holds         *)
(* functions only; a resolution that fails leaves the cache as it was,     *)
(* with no entry for the method; and every resolution of a method that is  *)
(* not in the cache imports and looks up again.                            *)
(***************************************************************************)
C34_OnlySuccessMemoized ==
    /\ [](\A n \in DOMAIN method_cache :
             /\ HasAttr(method_cache[n].module, method_cache[n].function)
             /\ IsCallable(method_cache[n].module, method_cache[n].function))
    /\ [][pc = "Resolving" =>
             /\ pc' = "Failed" =>
                   /\ method_cache' = method_cache
                   /\ method_name \notin DOMAIN method_cache'
             /\ method_name \notin DOMAIN method_cache => loads' = loads + 1]_vars

\* a resolution of m has failed after an import, in an executor whose cache
\* holds another method from an earlier invocation, and m is not cached
C34_Witness ==
    /\ pc = "Failed"
    /\ loads = 1
    /\ method_name = "m"
    /\ LoadSubKind(result.error) # "Unclassified"
    /\ "k" \in DOMAIN method_cache
    /\ "m" \notin DOMAIN method_cache

(***************************************************************************)
(* Nested invocations.  A callable may itself call execute: the inner      *)
(* invocation enters timeout_context while the outer one is still inside   *)
(* its own.  All of it happens on the main thread; the process has one     *)
(* SIGALRM handler slot and one alarm.                                      *)
(***************************************************************************)
\* everything above this point, which the collaborators leave alone
program == <<methods, method_cache, alarm, solo, workers, method_config, validation_result, registry, conversion>>
ProgramIdle ==
    /\ methods = <<>>
    /\ method_cache = <<>>
    /\ alarm = 0
    /\ SoloIdle
    /\ WorkersIdle
    /\ ValidatorIdle
    /\ RegistrationIdle
    /\ ConversionIdle

\* how deep invocations nest
MaxDepth == 3
\* the timeout argument of an invocation
NestTimeouts == {NoneV, IntV(0), IntV(1)}
\* the handler in place before any invocation (signal.SIG_DFL); the
\* timeout_handler closure of the k-th open context is written k
SIG_DFL == 0
\* no alarm is scheduled
NoAlarm == [owner |-> 0, seconds |-> 0]

\* signal.alarm(seconds) called by context k: a new alarm replaces the one
\* scheduled before, and alarm(0) only cancels
SetAlarm(k, seconds) ==
    IF seconds > 0 THEN [owner |-> k, seconds |-> seconds] ELSE NoAlarm

\* timeout_context's finally clause: signal.alarm(0), then
\* signal.signal(SIGALRM, old_handler)
Finally(sig) ==
    [handler |-> sig.stack[Len(sig.stack)].old_handler, alarm |-> NoAlarm]

NestInit ==
    /\ platform \in Platforms
    /\ signals = [pc |-> "Running", stack |-> <<>>, handler |-> SIG_DFL,
                  alarm |-> NoAlarm, exited |-> "none"]
    /\ ProgramIdle
    /\ DatabaseIdle
    /\ TasksIdle
    /\ AgentIdle

\* the context of an invocation that has reached the Executing step
Context(seconds, guarded, old_handler) ==
    [seconds |-> seconds, guarded |-> guarded, old_handler |-> old_handler,
     deadline |-> IF guarded /\ seconds > 0 THEN "armed" ELSE "none"]

\* execute reaches the Executing step, from the program's top level or from
\* inside the callable of the innermost open invocation: off win32 it
\* enters timeout_context, which installs its handler, remembers the one
\* it replaced and sets the alarm; then the callable starts
NestEnter ==
    \E t \in NestTimeouts :
       LET k == Len(signals.stack) + 1
           seconds == TimeoutSeconds(t)
       IN  /\ k <= MaxDepth
           /\ IF platform # "win32"
              THEN signals' =
                     [signals EXCEPT
                        !.stack = Append(@, Context(seconds, TRUE, signals.handler)),
                        !.handler = k,
                        !.alarm = SetAlarm(k, seconds),
                        !.exited = "none"]
              ELSE signals' =
                     [signals EXCEPT
                        !.stack = Append(@, Context(seconds, FALSE, signals.handler)),
                        !.exited = "none"]
           /\ UNCHANGED <<program, platform, database, tasks, agent>>

\* the innermost invocation leaves its with block
Leave(how) ==
    LET k == Len(signals.stack)
        top == signals.stack[k]
        after == Finally(signals)
    IN  signals' =
          [signals EXCEPT
             !.stack = SubSeq(@, 1, k - 1),
             !.handler = IF top.guarded THEN after.handler ELSE @,
             !.alarm = IF top.guarded THEN after.alarm ELSE @,
             !.exited = how]

\* the callable of the innermost invocation returns or raises
NestFinish ==
    /\ Len(signals.stack) > 0
    /\ \E how \in {"returned", "raised"} : Leave(how)
    /\ UNCHANGED <<program, platform, database, tasks, agent>>

\* the scheduled alarm goes off: the installed handler raises TimeoutError
\* in the code that is running, the callable of the innermost invocation,
\* whose with block is left through its finally clause
NestAlarm ==
    /\ signals.alarm # NoAlarm
    /\ signals.handler # SIG_DFL
    /\ Len(signals.stack) > 0
    /\ Leave("timeout")
    /\ UNCHANGED <<program, platform, database, tasks, agent>>

NestNext == NestEnter \/ NestFinish \/ NestAlarm
NestSpec == NestInit /\ [][NestNext]_vars

\* the context that a step closes, and the one around it
Closing == signals.stack[Len(signals.stack)]
Leaves == Len(signals'.stack) = Len(signals.stack) - 1
\* on the exit of a guarded invocation no alarm of its own is left
\* scheduled and the handler it replaced is installed again
RestoredOnExit ==
    (Leaves /\ Closing.guarded) =>
        /\ signals'.alarm.owner # Len(signals.stack)
        /\ signals'.handler = Closing.old_handler
\* the exit of a nested invocation leaves the deadline of the invocation
\* around it as it was: an alarm for it is scheduled, to be handled by its
\* own handler
OuterStillArmed ==
    (Leaves /\ Len(signals.stack) > 1
            /\ signals.stack[Len(signals.stack) - 1].deadline = "armed") =>
        /\ signals'.alarm.owner = Len(signals.stack) - 1
        /\ signals'.handler = Len(signals.stack) - 1

(***************************************************************************)
(* C35.  The deadline mechanism is restored on every exit of the           *)
(* Executing step (return, exception, timeout): no alarm of the invocation *)
(* stays scheduled and the handler it replaced is back; and an invocation  *)
(* that starts and finishes inside the callable of another leaves the      *)
(* outer invocation's deadline armed.                                      *)
(***************************************************************************)
C35_DeadlineRestored == [][RestoredOnExit /\ OuterStillArmed]_vars

(***************************************************************************)
(* The database client.  DatabaseConnection keeps a pool of pool_size      *)
(* connections; ensure_schema, test_connection, upsert_method,             *)
(* upsert_methods and load_all_methods each take a connection, open a      *)
(* cursor, execute their statements inside one transaction (the pool sets  *)
(* no autocommit) and leave through their except and finally clauses.      *)
(* Operations are called one after the other.                              *)
(***************************************************************************)
\* DatabaseConfig.pool_size, the maxconn of the pool
PoolSize == 2
\* the longest batch handed to upsert_methods
MaxDbBatch == 2

\* the declarations written: two of one name, one of another name, and one
\* whose parameters_json is not JSON
DbDeclarations ==
    {ToMetadata(GoodConfig),
     ToMetadata(MethodConfig(GoodText, OtherText, <<>>, "int", OtherText, OtherText)),
     ToMetadata([GoodConfig EXCEPT !.name = OtherText]),
     [ToMetadata([GoodConfig EXCEPT !.name = Txt(<<"b", "b">>, 0)])
        EXCEPT !.parameters_json = MalformedJson]}
DbBatches == UNION {[1..n -> DbDeclarations] : n \in 0..MaxDbBatch}

\* the INSERT is accepted: the text casts to jsonb and the locator fits its
\* VARCHAR columns
Accepts(m) == m.parameters_json.ok /\ FitsColumns(m)

\* an INSERT with no ON CONFLICT clause on a table with no UNIQUE name
InsertOrUpdate_insertOnly(rows, new) ==
    rows \cup {new @@ [created |-> "by this run", id |-> Cardinality(rows) + 1]}

\* INSERT INTO registered_methods ... ON CONFLICT (name) DO UPDATE SET ...
\* on the rows of the table: name is UNIQUE, id is SERIAL
InsertOrUpdate(rows, new) ==
    IF \E r \in rows : r.name = new.name
    THEN {IF r.name = new.name THEN OnConflict(r, new) @@ [id |-> r.id] ELSE r :
             r \in rows}
    ELSE rows \cup {new @@ [created |-> "by this run", id |-> Cardinality(rows) + 1]}

\* the statements of an operation, in the order it executes them
Upsert_(m) == [sql |-> "INSERT", row |-> m]
Statement(sql) == [sql |-> sql, row |-> NoneV]
Statements(op, methods_) ==
    CASE op = "ensure_schema" ->
            <<Statement("CREATE TABLE"), Statement("CREATE INDEX"),
              Statement("CREATE INDEX"), Statement("CREATE FUNCTION"),
              Statement("CREATE TRIGGER")>>
      [] op = "test_connection" -> <<Statement("SELECT 1")>>
      [] op = "load_all_methods" -> <<Statement("SELECT")>>
      [] OTHER -> [k \in 1..Len(methods_) |-> Upsert_(methods_[k])]

Operations ==
    {"ensure_schema", "test_connection", "upsert_method", "upsert_methods",
     "load_all_methods"}
\* the operations that call conn.commit()
Commits(op) == op \in {"ensure_schema", "upsert_method", "upsert_methods"}
\* the operations that set cursor = None before their try block
CursorPreset(op) == op \in {"upsert_method", "upsert_methods", "load_all_methods"}

\* a rollback that keeps what the transaction wrote
Rollback_commits(table, work) == work

\* conn.rollback(): the table after the transaction is given up
Rollback(table, work) == table

DbInit ==
    /\ database = [pc |-> "Ready", op |-> "none", stmts |-> <<>>, done |-> 0,
                   table |-> {}, work |-> {}, before |-> {}, latest |-> <<>>,
                   out |-> 0, conn |-> FALSE, cursor |-> "None",
                   outcome |-> "none"]
    /\ platform = "linux"
    /\ ProgramIdle
    /\ SignalsIdle
    /\ TasksIdle
    /\ AgentIdle

DbIdleRest == UNCHANGED <<program, platform, signals, tasks, agent>>

\* an operation is called
DbBegin(op, methods_) ==
    database' = [database EXCEPT
                   !.pc = "Connecting", !.op = op,
                   !.stmts = Statements(op, methods_), !.done = 0,
                   !.before = database.table, !.work = database.table,
                   !.conn = FALSE,
                   !.cursor = IF CursorPreset(op) THEN "None" ELSE "unbound",
                   !.outcome = "none"]

DbCall ==
    /\ database.pc = "Ready"
    /\ \/ \E op \in {"ensure_schema", "test_connection", "load_all_methods"} :
             DbBegin(op, <<>>)
       \/ \E m \in DbDeclarations : DbBegin("upsert_method", <<m>>)
       \/ \E ms \in DbBatches :
             IF ms = <<>>
             THEN \* upsert_methods: if not methods: return
                  database' = [database EXCEPT
                                 !.op = "upsert_methods", !.stmts = <<>>,
                                 !.done = 0, !.before = database.table,
                                 !.outcome = "returned"]
             ELSE DbBegin("upsert_methods", ms)
    /\ DbIdleRest

\* conn = get_connection(): the pool hands out a connection, or raises
\* PoolError (a psycopg2.Error) when all of them are out
DbGetConnection ==
    /\ database.pc = "Connecting"
    /\ IF database.out < PoolSize
       THEN database' = [database EXCEPT !.pc = "Cursor", !.conn = TRUE,
                                         !.out = @ + 1]
       ELSE database' = [database EXCEPT !.pc = "Except"]
    /\ DbIdleRest

\* cursor = conn.cursor()
DbCursor ==
    /\ database.pc = "Cursor"
    /\ database' = [database EXCEPT !.pc = "Executing", !.cursor = "open"]
    /\ DbIdleRest

\* cursor.execute(...): the next statement; an INSERT the server does not
\* accept raises psycopg2.Error
DbExecute ==
    /\ database.pc = "Executing"
    /\ database.done < Len(database.stmts)
    /\ LET s == database.stmts[database.done + 1]
       IN  IF s.sql # "INSERT"
           THEN database' = [database EXCEPT !.done = @ + 1]
           ELSE IF Accepts(s.row)
           THEN database' = [database EXCEPT
                               !.done = @ + 1,
                               !.work = InsertOrUpdate(@, s.row)]
           ELSE database' = [database EXCEPT !.pc = "Except"]
    /\ DbIdleRest

\* the rows an upsert operation has written, by name, latest last
RECURSIVE Written(_, _)
Written(latest, stmts) ==
    IF stmts = <<>> THEN latest
    ELSE LET m == Head(stmts).row
         IN  Written([n \in DOMAIN latest \cup {m.name} |->
                         IF n = m.name THEN m ELSE latest[n]],
                     Tail(stmts))

\* conn.commit() after the last statement
DbCommit ==
    /\ database.pc = "Executing"
    /\ database.done = Len(database.stmts)
    /\ Commits(database.op)
    /\ database' = [database EXCEPT
                      !.pc = "Finally", !.table = database.work,
                      !.latest = IF database.op = "ensure_schema" THEN @
                                 ELSE Written(@, database.stmts),
                      !.outcome = "returned"]
    /\ DbIdleRest

\* the last statement has run in an operation that does not commit:
\* test_connection closes its cursor and returns True, load_all_methods
\* returns the methods
DbReturn ==
    /\ database.pc = "Executing"
    /\ database.done = Len(database.stmts)
    /\ ~Commits(database.op)
    /\ database' = [database EXCEPT
                      !.pc = "Finally",
                      !.cursor = IF database.op = "test_connection"
                                 THEN "closed" ELSE @,
                      !.outcome = "returned"]
    /\ DbIdleRest

\* the server or the network fails: getconn, conn.cursor(), cursor.execute
\* or conn.commit() raises psycopg2.Error
DbFails ==
    /\ database.pc \in {"Connecting", "Cursor", "Executing"}
    /\ database' = [database EXCEPT !.pc = "Except"]
    /\ DbIdleRest

\* what the except psycopg2.Error clause of the operation leaves with
Raises(op) ==
    CASE op = "ensure_schema" -> "psycopg2.Error"
      [] op = "test_connection" -> "returned False"
      [] op = "load_all_methods" -> "MethodLoaderError"
      [] OTHER -> "DatabaseError"

\* except psycopg2.Error: the writing operations roll back if they hold a
\* connection; then the operation raises (test_connection returns False)
DbExcept ==
    /\ database.pc = "Except"
    /\ database' =
          [database EXCEPT
             !.pc = "Finally",
             !.table = IF Commits(database.op) /\ database.conn
                       THEN Rollback(database.table, database.work) ELSE @,
             !.work = IF Commits(database.op) /\ database.conn
                      THEN Rollback(database.table, database.work) ELSE @,
             !.outcome = Raises(database.op)]
    /\ DbIdleRest

\* the finally clause.  upsert and load: if cursor: cursor.close(); if
\* conn: return_connection(conn).  test_connection: if conn:
\* return_connection(conn).  ensure_schema: if conn: cursor.close();
\* return_connection(conn), where cursor is a local that is bound only once
\* conn.cursor() has returned: closing it before raises UnboundLocalError
\* and the connection is not returned.  putconn rolls back a transaction
\* left open.
DbFinally ==
    /\ database.pc = "Finally"
    /\ IF ~database.conn
       THEN database' = [database EXCEPT !.pc = "Ready"]
       ELSE IF database.op = "ensure_schema" /\ database.cursor = "unbound"
       THEN database' = [database EXCEPT !.pc = "Ready",
                                         !.outcome = "UnboundLocalError"]
       ELSE database' = [database EXCEPT
                           !.pc = "Ready", !.conn = FALSE, !.out = @ - 1,
                           !.work = database.table,
                           !.cursor = IF @ = "open" /\ database.op # "test_connection"
                                      THEN "closed" ELSE @]
    /\ DbIdleRest

DbNext ==
    \/ DbCall
    \/ DbGetConnection
    \/ DbCursor
    \/ DbExecute
    \/ DbCommit
    \/ DbReturn
    \/ DbFails
    \/ DbExcept
    \/ DbFinally

DbSpec == DbInit /\ [][DbNext]_vars

\* no operation is in progress
DbAtRest == database.pc = "Ready"

\* upsert_methods has raised after the server had accepted a statement of
\* its batch
BatchFailed ==
    /\ DbAtRest
    /\ database.op = "upsert_methods"
    /\ database.outcome = "DatabaseError"

(***************************************************************************)
(* C32.  upsert_methods is all-or-nothing: when writing a declaration of   *)
(* the batch fails, the table afterwards holds none of the batch's         *)
(* changes and the rows stored before the call are as they were; up to     *)
(* its commit the operation changes nothing in the table.                  *)
(***************************************************************************)
C32_BatchAllOrNothing ==
    /\ BatchFailed => database.table = database.before
    /\ (database.op = "upsert_methods" /\ database.outcome = "none") =>
          database.table = database.before

\* the batch failed at its second declaration, after the first one had
\* changed a row stored by an earlier call
C32_Witness ==
    /\ BatchFailed
    /\ database.done = 1
    /\ database.table # {}
    /\ InsertOrUpdate(database.table, database.stmts[1].row) # database.table

\* the rows of the table that hold a name
RowsOf(name) == {r \in database.table : r.name = name}
\* the declarations stored, and the one an upsert_method call wrote
Stored == {Declaration(r) : r \in database.table}
Repeats == database.op = "upsert_method" /\ database.stmts[1].row \in Stored

(***************************************************************************)
(* C33.  After any sequence of upserts the table holds at most one row     *)
(* per method name, that row carries every field of the most recent        *)
(* upsert of the name, and upserting a declaration that is stored already  *)
(* leaves name, description, parameters, return type and locator of every  *)
(* row as they were.                                                       *)
(***************************************************************************)
C33_UpsertKeepsLatest ==
    /\ [](\A r \in database.table : RowsOf(r.name) = {r})
    /\ [](\A n \in DOMAIN database.latest :
             \E r \in RowsOf(n) : Declaration(r) = database.latest[n])
    /\ [][(database.pc = "Executing" /\ Repeats) =>
             /\ Stored' = Stored
             /\ Cardinality(database'.table) = Cardinality(database.table)]_vars

\* a declaration has replaced another of its name, next to a row of
\* another name, and the same declaration has been upserted once more
C33_Witness ==
    /\ DbAtRest
    /\ database.op = "upsert_method"
    /\ database.outcome = "returned"
    /\ database.before = database.table
    /\ Cardinality(database.table) = 2
    /\ \E r \in database.table :
          /\ Declaration(r) = database.stmts[1].row
          /\ r.id = 1
          /\ r.description = OtherText

(***************************************************************************)
(* C36.  Every connection taken from the pool by a schema, upsert or load  *)
(* operation is returned exactly once before the operation returns or      *)
(* raises, on every path, a failure to create the cursor or to execute a   *)
(* statement included: whenever no operation is in progress, no           *)
(* connection is out of the pool.                                          *)
(***************************************************************************)
C36_ConnectionsReturned == DbAtRest => database.out = 0

(***************************************************************************)
(* The task API.  POST /api/tasks creates a task in the TaskStore and, if  *)
(* an agent client is set, processes it before it answers: the handler is  *)
(* a coroutine that never awaits, so requests are handled one at a time.   *)
(***************************************************************************)
\* how many tasks are submitted
MaxTasks == 3

\* datetime.utcnow().isoformat() + 'Z'
Timestamp == StrV(<<"Z">>)

\* TaskStore.create_task: the record of a new task
NewTask(task_id, description) ==
    [task_id |-> task_id, description |-> description, status |-> "PENDING",
     result |-> NoneV, error |-> NoneV, created_at |-> Timestamp,
     completed_at |-> NoneV]

\* TaskStore.complete_task
CompletedTask(task, result_) ==
    [task EXCEPT !.status = "COMPLETED", !.result = result_,
                 !.completed_at = Timestamp]

\* a fail_task that puts the error where the result goes
FailedTask_asResult(task, error) ==
    [task EXCEPT !.status = "FAILED", !.result = error,
                 !.completed_at = Timestamp]

\* TaskStore.fail_task
FailedTask(task, error) ==
    [task EXCEPT !.status = "FAILED", !.error = error,
                 !.completed_at = Timestamp]

\* AgentResponse(success, response, error), and what process_task may do:
\* return a response, successful or not, with or without an error text, or
\* raise an exception whose str() may be empty
AgentResponse(success, response, error) ==
    [success |-> success, response |-> response, error |-> error]
ProcessOutcomes ==
    {[raised |-> FALSE, response |-> AgentResponse(TRUE, StrV(<<"o", "k">>), NoneV)],
     [raised |-> FALSE, response |-> AgentResponse(TRUE, StrV(<<>>), NoneV)],
     [raised |-> FALSE, response |-> AgentResponse(FALSE, StrV(<<>>), StrV(<<"e">>))],
     [raised |-> FALSE, response |-> AgentResponse(FALSE, StrV(<<>>), NoneV)],
     [raised |-> FALSE, response |-> AgentResponse(FALSE, StrV(<<>>), StrV(<<>>))],
     [raised |-> TRUE, response |-> NoneV, str |-> StrV(<<"e">>)],
     [raised |-> TRUE, response |-> NoneV, str |-> StrV(<<>>)]}
\* request.task_description: blank, or a task
Descriptions == {StrV(<<>>), StrV(<<" ">>), StrV(<<"t">>)}
\* not s or not s.strip()
Blank(s) == \A k \in 1..Len(s.s) : s.s[k] = " "
\* response.error or "Unknown error"
ErrorOr(error) ==
    IF error = NoneV \/ error = StrV(<<>>) THEN StrV(<<"U", "n", "k", "n", "o", "w", "n">>)
    ELSE error

TaskInit ==
    /\ \E client \in BOOLEAN :
          tasks = [pc |-> "Ready", agent_client |-> client, store |-> <<>>,
                   task_id |-> 0, outcome |-> NoneV, processed |-> {},
                   http |-> 0]
    /\ platform = "linux"
    /\ ProgramIdle
    /\ SignalsIdle
    /\ DatabaseIdle
    /\ AgentIdle

TaskRest == UNCHANGED <<program, platform, signals, database, agent>>

\* AgentSchedulerAPI.set_agent_client
SetAgentClient ==
    /\ tasks.pc = "Ready"
    /\ ~tasks.agent_client
    /\ tasks' = [tasks EXCEPT !.agent_client = TRUE]
    /\ TaskRest

\* submit_task: a blank description is answered with 400; otherwise
\* create_task stores a new task under a fresh id
SubmitTask ==
    /\ tasks.pc = "Ready"
    /\ \E d \in Descriptions :
          IF Blank(d)
          THEN tasks' = [tasks EXCEPT !.http = 400]
          ELSE /\ Len(tasks.store) < MaxTasks
               /\ LET id == Len(tasks.store) + 1
                  IN  tasks' =
                        [tasks EXCEPT
                           !.store = Append(@, NewTask(id, d)),
                           !.task_id = id, !.outcome = NoneV, !.http = 0,
                           !.processed = IF tasks.agent_client
                                         THEN @ \cup {id} ELSE @,
                           !.pc = IF tasks.agent_client THEN "Created"
                                  ELSE "Respond"]
    /\ TaskRest

\* update_task_status(task_id, TaskStatus.PROCESSING)
UpdateTaskStatus ==
    /\ tasks.pc = "Created"
    /\ tasks' = [tasks EXCEPT !.store[tasks.task_id].status = "PROCESSING",
                              !.pc = "Processing"]
    /\ TaskRest

\* response = self.agent_client.process_task(...) returns or raises
ProcessTask ==
    /\ tasks.pc = "Processing"
    /\ \E o \in ProcessOutcomes :
          tasks' = [tasks EXCEPT !.outcome = o, !.pc = "Processed"]
    /\ TaskRest

\* if response.success: complete_task(task_id, response.response)
CompleteTask ==
    /\ tasks.pc = "Processed"
    /\ ~tasks.outcome.raised
    /\ tasks.outcome.response.success
    /\ tasks' = [tasks EXCEPT
                   !.store[tasks.task_id] =
                      CompletedTask(@, tasks.outcome.response.response),
                   !.pc = "Respond"]
    /\ TaskRest

\* else: fail_task(task_id, response.error or "Unknown error");
\* except Exception as e: fail_task(task_id, str(e))
FailTask ==
    /\ tasks.pc = "Processed"
    /\ IF tasks.outcome.raised THEN TRUE ELSE ~tasks.outcome.response.success
    /\ tasks' = [tasks EXCEPT
                   !.store[tasks.task_id] =
                      FailedTask(@, IF tasks.outcome.raised THEN tasks.outcome.str
                                    ELSE ErrorOr(tasks.outcome.response.error)),
                   !.pc = "Respond"]
    /\ TaskRest

\* return TaskSubmissionResponse(...) with status 201
Respond ==
    /\ tasks.pc = "Respond"
    /\ tasks' = [tasks EXCEPT !.pc = "Ready", !.http = 201]
    /\ TaskRest

\* the steps of the handler once it has created its task
HandlerStep == UpdateTaskStatus \/ ProcessTask \/ CompleteTask \/ FailTask \/ Respond

TaskNext ==
    \/ SetAgentClient
    \/ SubmitTask
    \/ UpdateTaskStatus
    \/ ProcessTask
    \/ CompleteTask
    \/ FailTask
    \/ Respond

\* the handler is straight-line code and process_task returns or raises
\* (its model call has a timeout): a request that is started is finished
TaskSpec == TaskInit /\ [][TaskNext]_vars /\ WF_vars(HandlerStep)

\* the status of task id, "" while it does not exist
StatusOf(store, id) == IF id \in 1..Len(store) THEN store[id].status ELSE ""
Final == {"COMPLETED", "FAILED"}
\* the changes of status a task may go through
StatusSteps ==
    {<<"", "PENDING">>, <<"PENDING", "PROCESSING">>,
     <<"PROCESSING", "COMPLETED">>, <<"PROCESSING", "FAILED">>}

MaxCalls == 3
ToolNames == {"m", "k"}
ToolCalls == UNION {[1..n -> ToolNames] : n \in 0..MaxCalls}

\* what a call of the tool executor may do: return an ExecutionResult,
\* successful or not, raise an Exception, or raise something that is no
\* Exception (execute lets SystemExit and KeyboardInterrupt through, and so
\* does _execute_method)
ExecutorOutcomes == {"succeeded", "failed", "Exception", "SystemExit"}

\* the exceptions that except Exception catches
IsException(exc) == exc = "Exception"

\* the entry of tool_results for a call
ToolResult(tool, outcome) ==
    [tool |-> tool, success |-> outcome = "succeeded",
     result |-> IF IsException(outcome) THEN "Error: e" ELSE outcome]

AgentInit ==
    /\ agent = [pc |-> "Ready", tool_executor |-> TRUE, tool_calls |-> <<>>,
                tool_results |-> <<>>, executed |-> <<>>, outcomes |-> <<>>,
                response |-> NoneV, raised |-> NoneV]
    /\ platform = "linux"
    /\ ProgramIdle
    /\ SignalsIdle
    /\ DatabaseIdle
    /\ TasksIdle

AgentRest == UNCHANGED <<program, platform, signals, database, tasks>>

\* return AgentResponse(...)
AgentReturn(response) ==
    agent' = [agent EXCEPT !.pc = "Returned", !.response = response]

\* process_task, steps 1 to 3: _call_ollama raises, which the outer except
\* clause turns into a failed response, or answers; _parse_tool_calls
\* finds the tool calls of the answer; with none the answer is returned
CallModel ==
    /\ agent.pc = "Ready"
    /\ \/ AgentReturn(AgentResponse(FALSE, StrV(<<>>), StrV(<<"e">>)))
       \/ \E calls_ \in ToolCalls :
             IF calls_ # <<>> /\ agent.tool_executor
             THEN agent' = [agent EXCEPT !.pc = "Tools", !.tool_calls = calls_]
             ELSE agent' = [agent EXCEPT
                              !.pc = "Returned", !.tool_calls = calls_,
                              !.response =
                                 AgentResponse(TRUE, StrV(<<"o", "k">>), NoneV)]
    /\ AgentRest

\* step 4, one round of the loop: the executor is called with the next
\* tool call; its result, or the Exception it raised, becomes an entry of
\* tool_results; anything else it raises leaves process_task
CallTool ==
    /\ agent.pc = "Tools"
    /\ Len(agent.executed) < Len(agent.tool_calls)
    /\ LET tool == agent.tool_calls[Len(agent.executed) + 1]
       IN  \E o \in ExecutorOutcomes :
              IF o \in {"succeeded", "failed"} \/ IsException(o)
              THEN agent' = [agent EXCEPT
                               !.executed = Append(@, tool),
                               !.outcomes = Append(@, o),
                               !.tool_results = Append(@, ToolResult(tool, o))]
              ELSE agent' = [agent EXCEPT
                               !.executed = Append(@, tool),
                               !.outcomes = Append(@, o),
                               !.pc = "Raised", !.raised = o]
    /\ AgentRest

\* step 5: _generate_final_response gives the model's answer or, when the
\* model fails, the tool results joined; process_task returns it
FinalResponse ==
    /\ agent.pc = "Tools"
    /\ Len(agent.executed) = Len(agent.tool_calls)
    /\ AgentReturn(AgentResponse(TRUE, StrV(<<"o", "k">>), NoneV))
    /\ AgentRest

\* the caller has the response, or the exception; the next task comes in
NextTask ==
    /\ agent.pc \in {"Returned", "Raised"}
    /\ agent' = [agent EXCEPT !.pc = "Ready", !.tool_calls = <<>>,
                              !.tool_results = <<>>, !.executed = <<>>,
                              !.outcomes = <<>>, !.response = NoneV,
                              !.raised = NoneV]
    /\ AgentRest

AgentNext == CallModel \/ CallTool \/ FinalResponse \/ NextTask
AgentSpec == AgentInit /\ [][AgentNext]_vars

\* process_task has come to its end
AgentDone == agent.pc \in {"Returned", "Raised"}
\* the calls made so far are the first of the parsed calls, in order
InParsedOrder ==
    /\ Len(agent.executed) <= Len(agent.tool_calls)
    /\ agent.executed = SubSeq(agent.tool_calls, 1, Len(agent.executed))
\* every call whose executor raised has a failed entry in tool_results
FailuresRecorded ==
    \A k \in 1..Len(agent.outcomes) :
       agent.outcomes[k] \notin {"succeeded", "failed"} =>
          /\ k <= Len(agent.tool_results)
          /\ agent.tool_results[k].tool = agent.tool_calls[k]
          /\ ~agent.tool_results[k].success

(***************************************************************************)
(* C37.  process_task executes each parsed tool call exactly once, in      *)
(* parsed order; an exception raised by the tool executor for a call is    *)
(* recorded as a failed tool result of that call and does not stop the     *)
(* calls after it; and process_task always returns an AgentResponse, it    *)
(* never raises.                                                           *)
(***************************************************************************)
C37_EveryToolCallOnce ==
    /\ InParsedOrder
    /\ FailuresRecorded
    /\ AgentDone =>
          /\ agent.pc = "Returned"
          /\ agent.response # NoneV
          /\ agent.response.success => agent.executed = agent.tool_calls

====
